---- MODULE Spec2Model ----
(***************************************************************************)
(* Model of dynamite-nsm's command-interface layer:                        *)
(*   cmd/config_object_interfaces.py  (AnalyzersInterface,                 *)
(*                                     FilebeatTargetsInterface)           *)
(*   commandline/service_to_commandline.py (descriptor extraction and      *)
(*       mapping, MultipleResponsibilityInterface,                         *)
(*       SingleResponsibilityInterface, append_interface_to_parser)        *)
(* Python strings are sequences of one-character strings, so that          *)
(* str.endswith and str.replace are computed and not assumed.              *)
(***************************************************************************)
EXTENDS Integers, Sequences, FiniteSets, TLC

VARIABLES
    iface,          \* which interface object this run constructed
    config_obj,     \* self.config_obj (mutated in place by execute)
    defaults,       \* self.defaults (FilebeatTargetsInterface only)
    changed_rows,   \* self.changed_rows
    args,           \* the argparse.Namespace handed to the last execute
    prev_obj,       \* config_obj as it was when the last execute started
    prev_args,      \* the Namespace as it was handed to the last execute
    result,         \* what the last execute returned
    pc,             \* Idle, or the outcome of the step that just ran
    cls,            \* the target type, as its __mro__ (most derived first)
    base_params,        \* self.base_params of a command-line interface
    interface_methods,  \* self.interface_methods of a command-line interface
    supported_method_names, \* the whitelist of a MultipleResponsibilityInterface
    entry_method_name,  \* the operation of a SingleResponsibilityInterface
    interface_params,   \* self.interface_params of a SingleResponsibilityInterface
    parser,             \* the grammar the last assembly left with the caller
    sub_parsers,        \* the sub-command a parent parser holds under 'cmd'
    prev_parser,        \* the grammar get_parser had returned before the
                        \* execute pass the last get_parser call followed
    argv,               \* the command line the last call parsed, if it parsed one
    calls,              \* the calls the last call made on the target type
    stdout,             \* what the last call printed
    raised              \* the exception the last call raised, or NoError

vars == <<iface, config_obj, defaults, changed_rows, args, prev_obj, prev_args,
          result, pc,
          cls, base_params, interface_methods, supported_method_names,
          entry_method_name, interface_params, parser, sub_parsers,
          prev_parser, argv, calls, stdout, raised>>

\* the state of a config-object interface / of a command-line interface
configVars    == <<config_obj, changed_rows, args, prev_obj, prev_args, result>>
extractorVars == <<cls, base_params, interface_methods>>
cliVars       == <<supported_method_names, entry_method_name, interface_params,
                   parser, sub_parsers, prev_parser, argv, calls, stdout, raised>>

\* no exception / no grammar
NoError  == "none"
NoParser == [arguments |-> <<>>, defaults |-> <<>>]

\* no command line was given (a given one may be empty); `last` tells which
\* part of a given command line is typed last, the flags or the action token
NoArgv == [given |-> FALSE, options |-> <<>>, positionals |-> <<>>,
           last |-> "positionals"]

\* the command-line variables of a run that has no command-line interface,
\* or has not used it yet
CliIdle ==
    /\ supported_method_names = <<>> /\ entry_method_name = <<>>
    /\ interface_params = <<>> /\ parser = NoParser /\ argv = NoArgv
    /\ sub_parsers = NoParser /\ prev_parser = NoParser
    /\ calls = <<>> /\ stdout = <<>> /\ raised = NoError

---------------------------------------------------------------------------
(* Bounds of the model *)

\* number of analyzers held by the collection
NumAnalyzers == 2

---------------------------------------------------------------------------
(* Python values *)

PyNone    == [kind |-> "None", s |-> <<>>, n |-> 0, b |-> FALSE]
PyStr(s)  == [kind |-> "str",  s |-> s,    n |-> 0, b |-> FALSE]
PyInt(n)  == [kind |-> "int",  s |-> <<>>, n |-> n, b |-> FALSE]
PyBool(b) == [kind |-> "bool", s |-> <<>>, n |-> 0, b |-> b]

\* Python truthiness: `if value:` / `if not value:`
Truthy(v) ==
    CASE v.kind = "None" -> FALSE
      [] v.kind = "str"  -> v.s # <<>>
      [] v.kind = "int"  -> v.n # 0
      [] v.kind = "bool" -> v.b

\* str.endswith(c) for a one-character suffix
EndsWith(s, c) == Len(s) > 0 /\ s[Len(s)] = c

\* str.replace(a, b) for one-character a and b
Replace(s, a, b) == [i \in 1..Len(s) |-> IF s[i] = a THEN b ELSE s[i]]

\* the dict {} (a dict is a function from its keys to their values)
EmptyDict == <<>>

\* `x in list`
InList(x, list) == \E i \in 1..Len(list) : list[i] = x

\* the literal 'N/A'
NA == <<"N", "/", "A">>

\* `v if v else 'N/A'`
ValueOrNA(v) == IF Truthy(v) THEN v.s ELSE NA

---------------------------------------------------------------------------
(* AnalyzersInterface.execute *)

AnalyzerHeaders == << <<"I","d">>, <<"N","a","m","e">>,
                      <<"E","n","a","b","l","e","d">>, <<"V","a","l","u","e">> >>

\* one table row: [analyzer.id, analyzer.name, analyzer.enabled, value or 'N/A']
AnalyzerRow(analyzer) ==
    [id |-> analyzer.id, name |-> analyzer.name, enabled |-> analyzer.enabled,
     value |-> ValueOrNA(analyzer.value)]

\* if args.disable: enabled = False  elif args.enable: enabled = True
ApplyEnableDisable(analyzer, a) ==
    IF a.disable THEN [analyzer EXCEPT !.enabled = FALSE]
    ELSE IF a.enable THEN [analyzer EXCEPT !.enabled = TRUE]
    ELSE analyzer

\* mutant: the terminator is appended unconditionally
CanonicalValue_Always(a) == [a EXCEPT !.value = PyStr(a.value.s \o <<";">>)]

\* if not str(args.value).endswith(';'): args.value = args.value + ';'
CanonicalValue(a) ==
    IF ~EndsWith(a.value.s, ";")
    THEN [a EXCEPT !.value = PyStr(a.value.s \o <<";">>)]
    ELSE a

\* mutant: any non-empty selection selects every analyzer
IsSelected_All(analyzer, a) == a.analyzer_ids # <<>>

\* mutant: an empty selection selects every analyzer
IsSelected_EmptyMeansAll(analyzer, a) ==
    a.analyzer_ids = <<>> \/ InList(analyzer.id, a.analyzer_ids)

\* analyzer.id in list(args.analyzer_ids)
IsSelected(analyzer, a) == InList(analyzer.id, a.analyzer_ids)

\* mutant: a selected analyzer that is disabled is deleted from the collection
AnalyzerIteration_DeleteDisabled(st, i) ==
    LET analyzer == st.analyzers[i]
        st1      == [st EXCEPT !.table = Append(@, AnalyzerRow(analyzer))]
        toggled  == ApplyEnableDisable(analyzer, st.args)
    IN  IF IsSelected(analyzer, st.args)
        THEN IF st.args.disable
             THEN [st1 EXCEPT !.analyzers =
                       SubSeq(@, 1, i - 1) \o SubSeq(@, i + 1, Len(@)),
                       !.selected_items = Append(@, AnalyzerRow(toggled))]
             ELSE [st1 EXCEPT !.analyzers = [@ EXCEPT ![i] = toggled],
                       !.selected_items = Append(@, AnalyzerRow(toggled))]
        ELSE st1

\* One iteration of `for analyzer in self.config_obj.analyzers`.
\* st carries the loop's variables: the analyzers, args (args.value is
\* rewritten in place), table and selected_items.
AnalyzerIteration(st, i) ==
    LET analyzer == st.analyzers[i]
        st1      == [st EXCEPT !.table = Append(@, AnalyzerRow(analyzer))]
        toggled  == ApplyEnableDisable(analyzer, st.args)
        hasValue == Truthy(st.args.value)
        a2       == IF hasValue THEN CanonicalValue(st.args) ELSE st.args
        selected == IF hasValue THEN [toggled EXCEPT !.value = a2.value]
                    ELSE toggled
    IN  IF IsSelected(analyzer, st.args)
        THEN [st1 EXCEPT !.analyzers = [@ EXCEPT ![i] = selected],
                         !.args = a2,
                         !.selected_items = Append(@, AnalyzerRow(selected))]
        ELSE st1

RECURSIVE AnalyzerLoop(_, _)
AnalyzerLoop(st, i) ==
    IF i > Len(st.analyzers) THEN st
    ELSE AnalyzerLoop(AnalyzerIteration(st, i), i + 1)

\* mutant: a pass that toggled something reports instead of returning the object
AnalyzersReturn_ReportAfterToggle(a, st) ==
    IF ~(a.analyzer_ids # <<>>) \/ a.enable
    THEN [config_obj |-> [analyzers |-> st.analyzers],
          changed_rows |-> st.changed_rows,
          args |-> st.args,
          result |-> [kind |-> "report", headers |-> AnalyzerHeaders,
                      rows |-> [i \in 1..Len(st.analyzers) |->
                                   AnalyzerRow(st.analyzers[i])]]]
    ELSE [config_obj |-> [analyzers |-> st.analyzers],
          changed_rows |-> st.selected_items,
          args |-> st.args,
          result |-> [kind |-> "config_obj", headers |-> <<>>, rows |-> <<>>]]

\* `if not args.analyzer_ids: ... return tabulate(...)` /
\* `else: self.changed_rows = selected_items; return self.config_obj`
AnalyzersReturn(a, st) ==
    IF ~(a.analyzer_ids # <<>>)
    THEN [config_obj |-> [analyzers |-> st.analyzers],
          changed_rows |-> st.changed_rows,
          args |-> st.args,
          result |-> [kind |-> "report", headers |-> AnalyzerHeaders,
                      rows |-> [i \in 1..Len(st.analyzers) |->
                                   AnalyzerRow(st.analyzers[i])]]]
    ELSE [config_obj |-> [analyzers |-> st.analyzers],
          changed_rows |-> st.selected_items,
          args |-> st.args,
          result |-> [kind |-> "config_obj", headers |-> <<>>, rows |-> <<>>]]

\* AnalyzersInterface.execute(args) on an interface whose changed_rows is
\* old_rows: the object, changed_rows and return value it leaves behind, and
\* the Namespace as the pass leaves it (args.value is rewritten in place).
\* The first statement resets self.changed_rows to [].
AnalyzersInterface_execute(obj, a, old_rows) ==
    LET st0 == [analyzers |-> obj.analyzers, args |-> a, changed_rows |-> <<>>,
                table |-> <<AnalyzerHeaders>>, selected_items |-> <<>>]
        st  == AnalyzerLoop(st0, 1)
    IN  AnalyzersReturn(a, st)

---------------------------------------------------------------------------
(* Inputs of AnalyzersInterface *)

\* strings a caller passes as --value, and the value an analyzer starts with
ValueStrings == { <<>>, <<"x">>, <<"x", ";">>, <<";", "x">> }
ArgValues    == {PyNone} \cup {PyStr(s) : s \in ValueStrings}

AnalyzerNames == << <<"A">>, <<"B">>, <<"C">>, <<"D">> >>

\* ids 1..NumAnalyzers exist; NumAnalyzers + 1 matches no analyzer
Ids     == 1..(NumAnalyzers + 1)
\* --ids lists: none, one id, two ids (in any order, repeats included)
IdLists == {<<>>} \cup {<<i>> : i \in Ids} \cup {<<i, j>> : i \in Ids, j \in Ids}

\* the Namespaces the grammar of build_parser yields for config_obj obj:
\* --value is added only `if getattr(analyzers[0], 'value', None)`; where
\* it is not, or is not typed, getattr(args, 'value', None) reads None
AnalyzerArgs(obj) ==
    [analyzer_ids : IdLists, enable : BOOLEAN, disable : BOOLEAN,
     value : IF Truthy(obj.analyzers[1].value) THEN ArgValues ELSE {PyNone}]

InitialAnalyzers ==
    {[i \in 1..NumAnalyzers |->
         [id |-> i, name |-> AnalyzerNames[i], enabled |-> en[i], value |-> va[i]]] :
       en \in [1..NumAnalyzers -> BOOLEAN],
       va \in [1..NumAnalyzers -> {PyNone, PyStr(<<"x", ";">>)}]}

NoResult == [kind |-> "none", headers |-> <<>>, rows |-> <<>>]

\* AnalyzersInterface.__init__
InitAnalyzers ==
    /\ iface = "AnalyzersInterface"
    /\ config_obj \in {[analyzers |-> s] : s \in InitialAnalyzers}
    /\ defaults = EmptyDict
    /\ cls = <<>> /\ base_params = <<>> /\ interface_methods = <<>>
    /\ CliIdle
    /\ changed_rows = <<>>
    /\ args = PyNone
    /\ prev_obj = config_obj
    /\ prev_args = PyNone
    /\ result = NoResult
    /\ pc = "Idle"

\* Idle -> Reporting (a report is returned) or Mutating (the object is)
Outcome(res) == IF res.kind = "report" THEN "Reporting" ELSE "Mutating"

\* one call of AnalyzersInterface.execute(args)
ExecuteAnalyzers ==
    /\ iface = "AnalyzersInterface"
    /\ pc = "Idle"
    /\ \E a \in AnalyzerArgs(config_obj) :
        \E out \in {AnalyzersInterface_execute(config_obj, a, changed_rows)} :
              /\ config_obj' = out.config_obj
              /\ changed_rows' = out.changed_rows
              /\ result' = out.result
              /\ pc' = Outcome(out.result)
              /\ args' = out.args
              /\ prev_obj' = config_obj
              /\ prev_args' = a
    /\ UNCHANGED <<iface, defaults, extractorVars, cliVars>>

\* execute has returned: the caller drops the Namespace and the returned
\* value; the interface object (config_obj, changed_rows) lives on
ReturnToCaller ==
    /\ pc \in {"Reporting", "Mutating"}
    /\ pc' = "Idle"
    /\ args' = PyNone
    /\ result' = NoResult
    /\ prev_obj' = config_obj
    /\ prev_args' = PyNone
    /\ UNCHANGED <<iface, config_obj, defaults, changed_rows, extractorVars, cliVars>>

NextAnalyzers == ExecuteAnalyzers \/ ReturnToCaller

SpecAnalyzers == InitAnalyzers /\ [][NextAnalyzers]_vars

---------------------------------------------------------------------------
(* FilebeatTargetsInterface.execute *)

\* names used by the interface
EnableName    == <<"e","n","a","b","l","e">>
DisableName   == <<"d","i","s","a","b","l","e">>
EnabledName   == <<"e","n","a","b","l","e","d">>
SubInterface  == <<"s","u","b","_","i","n","t","e","r","f","a","c","e">>

\* base_interface.RESERVED_VARIABLE_NAMES: the dispatch keys a parent
\* parser adds to every Namespace
RESERVED_VARIABLE_NAMES == {SubInterface}

FilebeatHeaders == << <<"C","o","n","f","i","g"," ","O","p","t","i","o","n">>,
                      <<"V","a","l","u","e">> >>

\* getattr(obj, name, None)
GetAttr(obj, name) == IF name \in DOMAIN obj THEN obj[name] ELSE PyNone

\* setattr(obj, name, value)
SetAttr(obj, name, value) ==
    [f \in (DOMAIN obj) \cup {name} |-> IF f = name THEN value ELSE obj[f]]

\* args.<name> of a Namespace held as its __dict__ items, in order
NamespaceGet(a, name) ==
    LET i == CHOOSE k \in 1..Len(a) : a[k].option = name IN a[i].value

\* mutant: the externally supplied defaults are not skipped
FilebeatSkipped_IgnoreDefaults(option, dflts) ==
    \/ option \in {EnableName, DisableName}
    \/ option \in RESERVED_VARIABLE_NAMES

\* the three `continue` tests at the head of the loop body
FilebeatSkipped(option, dflts) ==
    \/ option \in {EnableName, DisableName}
    \/ option \in DOMAIN dflts
    \/ option \in RESERVED_VARIABLE_NAMES

\* One iteration of `for option, value in args.__dict__.items()`.
\* st carries self.config_obj, self.changed_rows and table.
FilebeatIteration(st, item, dflts) ==
    IF FilebeatSkipped(item.option, dflts) THEN st
    ELSE IF ~Truthy(item.value)
    THEN LET current == GetAttr(st.obj, item.option)
             shown   == IF ~Truthy(current) THEN PyStr(NA) ELSE current
         IN  [st EXCEPT !.table = Append(@,
                 [option |-> Replace(item.option, "_", "-"), value |-> shown])]
    ELSE [st EXCEPT
            !.changed_rows = Append(@, [option |-> Replace(item.option, "_", "-"),
                                        value  |-> item.value]),
            !.obj = SetAttr(@, item.option, item.value)]

RECURSIVE FilebeatLoop(_, _, _, _)
FilebeatLoop(st, a, i, dflts) ==
    IF i > Len(a) THEN st
    ELSE FilebeatLoop(FilebeatIteration(st, a[i], dflts), a, i + 1, dflts)

\* mutant: a toggle that changes nothing is not recorded
FilebeatToggle_OnlyIfChanged(st, a) ==
    LET want == IF NamespaceGet(a, EnableName).b THEN TRUE ELSE FALSE
        asked == NamespaceGet(a, EnableName).b \/ NamespaceGet(a, DisableName).b
    IN  IF asked /\ st.obj[EnabledName] # PyBool(want)
        THEN [st EXCEPT !.changed_rows = Append(@, [option |-> EnabledName,
                                                    value |-> PyBool(want)]),
                        !.obj = SetAttr(@, EnabledName, PyBool(want))]
        ELSE st

\* if args.enable: ... elif args.disable: ...
FilebeatToggle(st, a) ==
    IF Truthy(NamespaceGet(a, EnableName))
    THEN [st EXCEPT !.changed_rows = Append(@, [option |-> EnabledName,
                                                value |-> PyBool(TRUE)]),
                    !.obj = SetAttr(@, EnabledName, PyBool(TRUE))]
    ELSE IF Truthy(NamespaceGet(a, DisableName))
    THEN [st EXCEPT !.changed_rows = Append(@, [option |-> EnabledName,
                                                value |-> PyBool(FALSE)]),
                    !.obj = SetAttr(@, EnabledName, PyBool(FALSE))]
    ELSE st

\* mutant: the report is returned whenever no toggle was requested
FilebeatReturn_ReportUnlessToggled(st, a) ==
    IF ~Truthy(NamespaceGet(a, EnableName)) /\ ~Truthy(NamespaceGet(a, DisableName))
    THEN [config_obj |-> st.obj, changed_rows |-> st.changed_rows,
          result |-> [kind |-> "report", headers |-> FilebeatHeaders,
                      rows |-> Append(st.table,
                                 [option |-> EnabledName,
                                  value |-> st.obj[EnabledName]])]]
    ELSE [config_obj |-> st.obj, changed_rows |-> st.changed_rows,
          result |-> [kind |-> "config_obj", headers |-> <<>>, rows |-> <<>>]]

\* `if not self.changed_rows: table.append(['enabled', ...]); return tabulate(...)`
\* `return self.config_obj`
FilebeatReturn(st, a) ==
    IF st.changed_rows = <<>>
    THEN [config_obj |-> st.obj, changed_rows |-> st.changed_rows,
          result |-> [kind |-> "report", headers |-> FilebeatHeaders,
                      rows |-> Append(st.table,
                                 [option |-> EnabledName,
                                  value |-> st.obj[EnabledName]])]]
    ELSE [config_obj |-> st.obj, changed_rows |-> st.changed_rows,
          result |-> [kind |-> "config_obj", headers |-> <<>>, rows |-> <<>>]]

\* mutant: the pass starts from the rows the interface already holds
FilebeatTargetsInterface_execute_KeepsOldRows(obj, a, dflts, old_rows) ==
    LET st0 == [obj |-> obj, changed_rows |-> old_rows, table |-> <<>>]
        st1 == FilebeatLoop(st0, a, 1, dflts)
        st2 == FilebeatToggle(st1, a)
    IN  FilebeatReturn(st2, a)

\* FilebeatTargetsInterface.execute(args) on an interface whose changed_rows
\* is old_rows.  The first statement resets self.changed_rows to [].
FilebeatTargetsInterface_execute(obj, a, dflts, old_rows) ==
    LET st0 == [obj |-> obj, changed_rows |-> <<>>, table |-> <<>>]
        st1 == FilebeatLoop(st0, a, 1, dflts)
        st2 == FilebeatToggle(st1, a)
    IN  FilebeatReturn(st2, a)

---------------------------------------------------------------------------
(* Inputs of FilebeatTargetsInterface *)

HostName  == <<"h","o","s","t">>
PortName  == <<"p","o","r","t">>
SslCaName == <<"s","s","l","_","c","a">>

\* vars(config_obj) of the target the interface wraps
TargetFields == {HostName, PortName, SslCaName, EnabledName}

InitialTargets ==
    {[f \in TargetFields |->
        CASE f = HostName    -> PyStr(h)
          [] f = PortName    -> PyInt(p)
          [] f = SslCaName   -> PyStr(<<>>)
          [] f = EnabledName -> PyBool(e)] :
       h \in {<<>>, <<"a">>}, p \in {0, 1}, e \in BOOLEAN}

\* a parsed Namespace: one entry per target option, the two toggles, and
\* sub_interface when the parser was attached under a sub-command
FilebeatArgs ==
    {<<[option |-> HostName,    value |-> h],
       [option |-> PortName,    value |-> p],
       [option |-> SslCaName,   value |-> c],
       [option |-> EnableName,  value |-> PyBool(en)],
       [option |-> DisableName, value |-> PyBool(dis)]>> \o sub :
       h   \in {PyNone, PyStr(<<>>), PyStr(<<"b">>)},
       p   \in {PyNone, PyInt(0), PyInt(2)},
       c   \in {PyNone, PyStr(<<"c">>)},
       en  \in BOOLEAN, dis \in BOOLEAN,
       sub \in {<<>>, <<[option |-> SubInterface, value |-> PyStr(<<"t">>)]>>}}

\* FilebeatTargetsInterface.__init__(config_obj, defaults)
InitFilebeat ==
    /\ iface = "FilebeatTargetsInterface"
    /\ config_obj \in InitialTargets
    /\ defaults \in {EmptyDict, [n \in {PortName} |-> PyInt(1)]}
    /\ cls = <<>> /\ base_params = <<>> /\ interface_methods = <<>>
    /\ CliIdle
    /\ changed_rows = <<>>
    /\ args = PyNone
    /\ prev_obj = config_obj
    /\ prev_args = PyNone
    /\ result = NoResult
    /\ pc = "Idle"

\* one call of FilebeatTargetsInterface.execute(args)
ExecuteFilebeat ==
    /\ iface = "FilebeatTargetsInterface"
    /\ pc = "Idle"
    /\ \E a \in FilebeatArgs :
        \E out \in {FilebeatTargetsInterface_execute(config_obj, a, defaults, changed_rows)} :
              /\ config_obj' = out.config_obj
              /\ changed_rows' = out.changed_rows
              /\ result' = out.result
              /\ pc' = Outcome(out.result)
              /\ args' = a
              /\ prev_obj' = config_obj
              /\ prev_args' = a
    /\ UNCHANGED <<iface, defaults, extractorVars, cliVars>>

NextFilebeat == ExecuteFilebeat \/ ReturnToCaller

SpecFilebeat == InitFilebeat /\ [][NextFilebeat]_vars

---------------------------------------------------------------------------
(* service_to_commandline.py: descriptor extraction *)

\* `sub in s` for strings
Contains(sub, s) ==
    \E i \in 0..(Len(s) - Len(sub)) : SubSeq(s, i + 1, i + Len(sub)) = sub

\* a kwarg that the final dict comprehension dropped (or that was never set)
Absent == "absent"

\* ArgparseParameters.derive_params_from_type_annotation(python_type, default);
\* python_type is str(python_type).  A kwarg whose value is None or '' is
\* filtered out of the returned dict.
derive_params_from_type_annotation(python_type, default) ==
    LET required == ~Truthy(default)
                    /\ ~(Contains(<<"U", "n", "i", "o", "n">>, python_type)
                         /\ Contains(<<"N", "o", "n", "e", "T", "y", "p", "e">>, python_type))
        nargs    == IF Contains(<<"L", "i", "s", "t">>, python_type) THEN "+" ELSE Absent
        action   == IF Contains(<<"b", "o", "o", "l">>, python_type) THEN "store_true" ELSE Absent
        type     == IF Contains(<<"b", "o", "o", "l">>, python_type) THEN Absent
                    ELSE IF Contains(<<"i", "n", "t">>, python_type) THEN "int"
                    ELSE IF Contains(<<"f", "l", "o", "a", "t">>, python_type) THEN "float"
                    ELSE "str"
    IN  [required |-> required,
         action   |-> action,
         default  |-> IF default = PyStr(<<>>) THEN PyNone ELSE default,
         nargs    |-> nargs,
         type     |-> type,
         help     |-> PyNone]

\* ArgparseParameters.create_from_typing_annotation / __init__
create_from_typing_annotation(name, python_type, default) ==
    [name   |-> name,
     flags  |-> << <<"-", "-">> \o Replace(name, "_", "-") >>,
     kwargs |-> derive_params_from_type_annotation(python_type, default)]

\* dict.get(key) on a dict held as a function
DictGet(d, key) == IF key \in DOMAIN d THEN d[key] ELSE PyNone

\* param_map[param_name] after the docstring loop: the last description
\* given for the name; PyNone stands for the KeyError
ParamMapGet(docs, param_name) ==
    LET hits == {i \in 1..Len(docs) : docs[i].arg_name = param_name}
    IN  IF hits = {} THEN PyNone
        ELSE PyStr(docs[CHOOSE i \in hits : \A j \in hits : j <= i].description)

\* ArgparseParameters.add_description(description):
\* self.kwargs['help'] = description
add_description(params, description) ==
    [params EXCEPT !.kwargs.help = description]

\* the ArgparseParameters get_argparse_parameters builds for one annotation
ArgparseParametersFor(item, docs, dflts) ==
    LET given  == DictGet(dflts, item.name)
        params == IF Truthy(given)
                  THEN create_from_typing_annotation(item.name, item.type, given)
                  ELSE create_from_typing_annotation(item.name, item.type, PyNone)
        descr  == ParamMapGet(docs, item.name)
    IN  IF descr.kind = "None" THEN params
        ELSE add_description(params, descr)

RECURSIVE ArgparseParameterGroup(_, _, _, _)
\* the loop `for param_name, data_type in annotations.items()` from item i on
ArgparseParameterGroup(annotations, docs, dflts, i) ==
    IF i > Len(annotations) THEN <<>>
    ELSE IF annotations[i].name = <<"r", "e", "t", "u", "r", "n">>
    THEN ArgparseParameterGroup(annotations, docs, dflts, i + 1)
    ELSE <<ArgparseParametersFor(annotations[i], docs, dflts)>>
         \o ArgparseParameterGroup(annotations, docs, dflts, i + 1)

\* get_argparse_parameters(func_def, defaults)
get_argparse_parameters(func_def, dflts) ==
    ArgparseParameterGroup(func_def.annotations, func_def.docs, dflts, 1)

\* the result None of get_function_definition
NoFuncDef == [ok |-> FALSE, name |-> <<>>, annotations |-> <<>>, docs |-> <<>>]

\* dict.pop(key) on a dict held as its items in order
DictPop(items, key) == SelectSeq(items, LAMBDA it : it.name # key)

\* get_function_definition(func).  A member of a class __dict__ is
\* [name, callable, has_annotations, annotations, docs]; for __init__ the
\* annotations are the items of inspect.signature(func).parameters.
get_function_definition(func) ==
    IF ~func.callable THEN NoFuncDef
    ELSE IF func.name = <<"_", "_", "i", "n", "i", "t", "_", "_">>
    THEN [ok |-> TRUE, name |-> <<"_", "_", "i", "n", "i", "t", "_", "_">>,
          annotations |-> DictPop(func.annotations, <<"s", "e", "l", "f">>), docs |-> func.docs]
    ELSE IF ~func.has_annotations THEN NoFuncDef
    ELSE [ok |-> TRUE, name |-> func.name,
          annotations |-> func.annotations, docs |-> func.docs]

\* `d[key] = value` on a dict held as its items in order: a key that is
\* already there keeps its place and takes the new value
DictStore(items, key, value) ==
    IF \E i \in 1..Len(items) : items[i].name = key
    THEN [i \in 1..Len(items) |->
             IF items[i].name = key THEN [items[i] EXCEPT !.params = value]
             ELSE items[i]]
    ELSE Append(items, [name |-> key, params |-> value])

\* mutant: a name that is already recorded is left alone
RecordMethod_FirstWins(functions, func_def, dflts) ==
    IF \E i \in 1..Len(functions) : functions[i].name = func_def.name
    THEN functions
    ELSE Append(functions, [name |-> func_def.name,
                            params |-> get_argparse_parameters(func_def, dflts)])

\* interface_functions[func_name] = get_argparse_parameters(func_def, defaults)
RecordMethod(functions, func_def, dflts) ==
    DictStore(functions, func_def.name, get_argparse_parameters(func_def, dflts))

RECURSIVE EnumerateMembers(_, _, _, _)
\* `for callable in c.__dict__.values()` from member k on
EnumerateMembers(functions, members, dflts, k) ==
    IF k > Len(members) THEN functions
    ELSE LET func_def == get_function_definition(members[k])
         IN  IF ~func_def.ok \/ func_def.name = <<"_", "_", "i", "n", "i", "t", "_", "_">>
             THEN EnumerateMembers(functions, members, dflts, k + 1)
             ELSE EnumerateMembers(RecordMethod(functions, func_def, dflts),
                                   members, dflts, k + 1)

RECURSIVE EnumerateMro(_, _, _, _)
\* `for c in cls.__mro__` from class i on
EnumerateMro(functions, mro, dflts, i) ==
    IF i > Len(mro) THEN functions
    ELSE EnumerateMro(EnumerateMembers(functions, mro[i].members, dflts, 1),
                      mro, dflts, i + 1)

\* attribute lookup klass.__init__ along an __mro__
ResolveInit(mro) ==
    LET has(i) == \E k \in 1..Len(mro[i].members) : mro[i].members[k].name = <<"_", "_", "i", "n", "i", "t", "_", "_">>
        c      == CHOOSE i \in 1..Len(mro) : has(i) /\ \A j \in 1..(i - 1) : ~has(j)
        k      == CHOOSE k \in 1..Len(mro[c].members) : mro[c].members[k].name = <<"_", "_", "i", "n", "i", "t", "_", "_">>
    IN  mro[c].members[k]

\* get_class_instance_methods(cls, defaults, use_parent_init)
get_class_instance_methods(mro, dflts, use_parent_init) ==
    LET interface_functions == EnumerateMro(<<>>, mro, dflts, 1)
        parent_mro == IF Len(mro) >= 2 THEN SubSeq(mro, 2, Len(mro)) ELSE mro
        func_def == IF use_parent_init
                    THEN get_function_definition(ResolveInit(parent_mro))
                    ELSE get_function_definition(ResolveInit(mro))
    IN  [base_params |-> get_argparse_parameters(func_def, dflts),
         interface_functions |-> interface_functions]

---------------------------------------------------------------------------
(* Target types handed to the extractor *)

TypeBool == <<"<", "c", "l", "a", "s", "s", " ", "'", "b", "o", "o", "l", "'", ">">>

\* a method as it sits in a class __dict__; docs are the parameters its own
\* docstring describes (none: the def statement has no docstring)
Method(name, annotations, docs) ==
    [name |-> name, callable |-> TRUE, has_annotations |-> TRUE,
     annotations |-> annotations, docs |-> docs]

StartName   == <<"s", "t", "a", "r", "t">>
StopName    == <<"s", "t", "o", "p">>
VerboseName == <<"v", "e", "r", "b", "o", "s", "e">>
CountName   == <<"c", "o", "u", "n", "t">>

\* def start(self)  /  def start(self, verbose: bool), without a docstring
\* and with one that describes verbose
StartVariants ==
    {Method(StartName, <<>>, <<>>),
     Method(StartName, <<[name |-> VerboseName, type |-> TypeBool]>>, <<>>),
     Method(StartName, <<[name |-> VerboseName, type |-> TypeBool]>>,
            <<[arg_name |-> VerboseName, description |-> <<"m", "o", "r", "e">>]>>)}

\* def stop(self)  /  def stop(self, count: int) -> None
StopVariants ==
    {Method(StopName, <<>>, <<>>),
     Method(StopName, <<[name |-> CountName, type |-> <<"<", "c", "l", "a", "s", "s", " ", "'", "i", "n", "t", "'", ">">>],
                        [name |-> <<"r", "e", "t", "u", "r", "n">>, type |-> <<"N", "o", "n", "e">>]>>, <<>>)}

\* def __init__(self, stdout: bool = False): the items of
\* inspect.signature(...).parameters, each with str(Parameter)
InitMethod ==
    Method(<<"_", "_", "i", "n", "i", "t", "_", "_">>,
           <<[name |-> <<"s", "e", "l", "f">>, type |-> <<"s", "e", "l", "f">>],
             [name |-> <<"s", "t", "d", "o", "u", "t">>, type |-> <<"s", "t", "d", "o", "u", "t", ":", " ", "b", "o", "o", "l", " ", "=", " ", "F", "a", "l", "s", "e">>]>>,
           <<>>)

\* object: __init__ and __repr__ are slot wrappers (no __annotations__),
\* __doc__ is a str
ObjectClass ==
    [members |->
       <<[name |-> <<"_", "_", "r", "e", "p", "r", "_", "_">>, callable |-> TRUE, has_annotations |-> FALSE,
          annotations |-> <<>>, docs |-> <<>>],
         [name |-> <<"_", "_", "i", "n", "i", "t", "_", "_">>, callable |-> TRUE, has_annotations |-> FALSE,
          annotations |-> <<[name |-> <<"s", "e", "l", "f">>, type |-> <<"s", "e", "l", "f">>],
                            [name |-> <<"a", "r", "g", "s">>, type |-> <<"*", "a", "r", "g", "s">>],
                            [name |-> <<"k", "w", "a", "r", "g", "s">>, type |-> <<"*", "*", "k", "w", "a", "r", "g", "s">>]>>,
          docs |-> <<>>],
         [name |-> <<"_", "_", "d", "o", "c", "_", "_">>, callable |-> FALSE, has_annotations |-> FALSE,
          annotations |-> <<>>, docs |-> <<>>]>>]

\* the method lists a class body can hold: start and stop, each left out
\* or defined in one of its variants
MethodLists ==
    {s \o t : s \in {<<>>} \cup {<<m>> : m \in StartVariants},
              t \in {<<>>} \cup {<<m>> : m \in StopVariants}}

\* class Base: __init__ + methods;  class Derived(Base): methods
BaseClasses    == {[members |-> <<InitMethod>> \o ms] : ms \in MethodLists}
DerivedClasses == {[members |-> ms] : ms \in MethodLists}

\* inspect.getdoc(func) for member k of class i of an __mro__: the
\* docstring of the function itself or, when it has none, of the first
\* class after it along the __mro__ that defines the name with a docstring
getdoc(mro, i, k) ==
    LET name == mro[i].members[k].name
        documented(j) ==
            \E m \in 1..Len(mro[j].members) :
                mro[j].members[m].name = name /\ mro[j].members[m].docs # <<>>
        bases == {j \in (i + 1)..Len(mro) : documented(j)}
    IN  IF mro[i].members[k].docs # <<>> \/ bases = {}
        THEN mro[i].members[k].docs
        ELSE LET j == CHOOSE j \in bases : \A h \in bases : j <= h
                 m == CHOOSE m \in 1..Len(mro[j].members) :
                          mro[j].members[m].name = name
             IN  mro[j].members[m].docs

\* __mro__ of the target type: (Base, object) or (Derived, Base, object).
\* The docs of a member are what inspect.getdoc returns for it.
TargetTypes ==
    LET bodies == {<<b, ObjectClass>> : b \in BaseClasses}
                  \cup {<<d, b, ObjectClass>> : d \in DerivedClasses, b \in BaseClasses}
    IN  {[i \in 1..Len(mro) |->
            [members |-> [k \in 1..Len(mro[i].members) |->
                [mro[i].members[k] EXCEPT !.docs = getdoc(mro, i, k)]]]] :
         mro \in bodies}

ExtractorDefaults == {EmptyDict, [n \in {VerboseName} |-> PyBool(TRUE)]}

\* before MultipleResponsibilityInterface / SingleResponsibilityInterface
\* __init__ runs on a target type
InitExtractor ==
    /\ iface = "CommandlineInterface"
    /\ cls \in TargetTypes
    /\ defaults \in ExtractorDefaults
    /\ base_params = <<>> /\ interface_methods = <<>>
    /\ CliIdle
    /\ pc = "Idle"
    /\ config_obj = <<>> /\ changed_rows = <<>> /\ args = PyNone
    /\ prev_obj = <<>> /\ prev_args = PyNone /\ result = NoResult

\* self.base_params, self.interface_methods =
\*     get_class_instance_methods(cls, defaults, use_parent_init=False)
BuildInterface ==
    /\ iface = "CommandlineInterface"
    /\ pc = "Idle"
    /\ \E out \in {get_class_instance_methods(cls, defaults, FALSE)} :
          /\ base_params' = out.base_params
          /\ interface_methods' = out.interface_functions
    /\ pc' = "Built"
    /\ UNCHANGED <<iface, defaults, cls, configVars, cliVars>>

NextExtractor == BuildInterface

SpecExtractor == InitExtractor /\ [][NextExtractor]_vars

---------------------------------------------------------------------------
(* Signatures of target types, and how Python renders them *)

\* inspect.Parameter.empty: no annotation / no default
Empty == [kind |-> "empty", s |-> <<>>, n |-> 0, b |-> FALSE]

\* declared types: a scalar, typing.List[T], typing.Optional[T], or none
Scalar(k)     == [k |-> k, of |-> "-"]
ListOf(k)     == [k |-> "List", of |-> k]
OptionalOf(k) == [k |-> "Optional", of |-> k]
Untyped       == [k |-> "empty", of |-> "-"]

\* a parameter of a def statement
Param(name, annotation, default) ==
    [name |-> name, annotation |-> annotation, default |-> default]

\* type.__name__ of the builtin scalars
TypeName(k) ==
    CASE k = "bool"  -> <<"b", "o", "o", "l">>
      [] k = "int"   -> <<"i", "n", "t">>
      [] k = "float" -> <<"f", "l", "o", "a", "t">>
      [] k = "str"   -> <<"s", "t", "r">>

\* the interpreters the package runs on differ in repr(typing.Optional[T])
PythonVersions == {"3.8", "3.11"}

\* repr() of a typing object without its 'typing.' prefix
TypingRepr(t, py) ==
    CASE t.k = "List" -> <<"L", "i", "s", "t", "[">> \o TypeName(t.of) \o <<"]">>
      [] t.k = "Optional" /\ py = "3.8" ->
            <<"U", "n", "i", "o", "n", "[">> \o TypeName(t.of) \o <<",", " ", "N", "o", "n", "e", "T", "y", "p", "e", "]">>
      [] t.k = "Optional" /\ py # "3.8" ->
            <<"O", "p", "t", "i", "o", "n", "a", "l", "[">> \o TypeName(t.of) \o <<"]">>

\* str(python_type) of an annotation object
TypeStr(t, py) ==
    IF t.k \in {"List", "Optional"} THEN <<"t", "y", "p", "i", "n", "g", ".">> \o TypingRepr(t, py)
    ELSE <<"<", "c", "l", "a", "s", "s", " ", "'">> \o TypeName(t.k) \o <<"'", ">">>

\* inspect.formatannotation(annotation)
formatannotation(t, py) ==
    IF t.k \in {"List", "Optional"} THEN TypingRepr(t, py) ELSE TypeName(t.k)

Digits == <<"0", "1", "2", "3", "4", "5", "6", "7", "8", "9">>

RECURSIVE IntStr(_)
\* str(n) of an int n >= 0
IntStr(n) == IF n < 10 THEN <<Digits[n + 1]>>
             ELSE IntStr(n \div 10) \o <<Digits[(n % 10) + 1]>>

\* repr(value)
Repr(v) ==
    CASE v.kind = "None" -> <<"N", "o", "n", "e">>
      [] v.kind = "bool" -> IF v.b THEN <<"T", "r", "u", "e">> ELSE <<"F", "a", "l", "s", "e">>
      [] v.kind = "int"  -> IF v.n < 0 THEN <<"-">> \o IntStr(0 - v.n) ELSE IntStr(v.n)
      [] v.kind = "str"  -> <<"'">> \o v.s \o <<"'">>

\* str(inspect.Parameter) of a positional-or-keyword parameter
ParameterStr(p, py) ==
    IF p.annotation.k = "empty"
    THEN IF p.default = Empty THEN p.name
         ELSE p.name \o <<"=">> \o Repr(p.default)
    ELSE IF p.default = Empty
         THEN p.name \o <<":", " ">> \o formatannotation(p.annotation, py)
         ELSE p.name \o <<":", " ">> \o formatannotation(p.annotation, py)
                     \o <<" ", "=", " ">> \o Repr(p.default)

\* the items of inspect.signature(func).parameters of a method
SignatureItems(params, py) ==
    <<[name |-> <<"s", "e", "l", "f">>, type |-> <<"s", "e", "l", "f">>]>>
    \o [i \in 1..Len(params) |->
           [name |-> params[i].name, type |-> ParameterStr(params[i], py)]]

\* the items of func.__annotations__: the annotated parameters only
AnnotationItems(params, py) ==
    LET annotated == SelectSeq(params, LAMBDA p : p.annotation.k # "empty")
    IN  [i \in 1..Len(annotated) |->
            [name |-> annotated[i].name,
             type |-> TypeStr(annotated[i].annotation, py)]]

\* a function defined in a class body: what get_function_definition reads
\* (name, annotations, docs) and what a call needs (signature, returns)
Function(name, params, returns, py) ==
    [name |-> name, callable |-> TRUE, has_annotations |-> TRUE,
     annotations |-> IF name = <<"_", "_", "i", "n", "i", "t", "_", "_">> THEN SignatureItems(params, py)
                     ELSE AnnotationItems(params, py),
     docs |-> <<>>, signature |-> params, returns |-> returns]

---------------------------------------------------------------------------
(* Construction of the two command-line interfaces *)

\* dict[key] on a dict held as its items in order
HasKey(items, key) == \E i \in 1..Len(items) : items[i].name = key
ItemOf(items, key) == items[CHOOSE i \in 1..Len(items) : items[i].name = key]

\* MultipleResponsibilityInterface.__init__
MultipleResponsibilityInterface_init(mro, dflts) ==
    LET out == get_class_instance_methods(mro, dflts, FALSE)
    IN  [base_params       |-> out.base_params,
         interface_methods |-> out.interface_functions,
         interface_params  |-> <<>>,
         raised            |-> NoError]

\* SingleResponsibilityInterface.__init__: the subscript
\* self.interface_methods[self.entry_method_name] raises KeyError
SingleResponsibilityInterface_init(mro, entry, dflts) ==
    LET out == get_class_instance_methods(mro, dflts, FALSE)
    IN  IF HasKey(out.interface_functions, entry)
        THEN [base_params       |-> out.base_params,
              interface_methods |-> out.interface_functions,
              interface_params  |-> ItemOf(out.interface_functions, entry).params,
              raised            |-> NoError]
        ELSE [base_params       |-> out.base_params,
              interface_methods |-> out.interface_functions,
              interface_params  |-> <<>>,
              raised            |-> "KeyError"]

\* the interface object exists only if __init__ returned
ConstructedAs(out) == IF out.raised = NoError THEN "Built" ELSE "Failed"

ConstructMultiple ==
    /\ iface = "MultipleResponsibilityInterface"
    /\ pc = "Idle"
    /\ \E out \in {MultipleResponsibilityInterface_init(cls, defaults)} :
          /\ base_params' = out.base_params
          /\ interface_methods' = out.interface_methods
          /\ interface_params' = out.interface_params
          /\ raised' = out.raised
          /\ pc' = ConstructedAs(out)
    /\ UNCHANGED <<iface, defaults, cls, configVars, supported_method_names,
                   entry_method_name, parser, sub_parsers, prev_parser,
                   argv, calls, stdout>>

ConstructSingle ==
    /\ iface = "SingleResponsibilityInterface"
    /\ pc = "Idle"
    /\ \E out \in {SingleResponsibilityInterface_init(cls, entry_method_name, defaults)} :
          /\ base_params' = out.base_params
          /\ interface_methods' = out.interface_methods
          /\ interface_params' = out.interface_params
          /\ raised' = out.raised
          /\ pc' = ConstructedAs(out)
    /\ UNCHANGED <<iface, defaults, cls, configVars, supported_method_names,
                   entry_method_name, parser, sub_parsers, prev_parser,
                   argv, calls, stdout>>

---------------------------------------------------------------------------
(* Grammar assembly: get_parser and append_interface_to_parser *)

\* an optional argument of an argparse parser: dest is the first long
\* option string without its '--', hyphens written as underscores
OptionalArgument(flags, kwargs) ==
    [positional |-> FALSE,
     dest       |-> Replace(SubSeq(flags[1], 3, Len(flags[1])), "-", "_"),
     option_strings |-> flags, kwargs |-> kwargs, choices |-> <<>>]

\* parser.add_argument('action', choices=actions)
ActionArgument(actions) ==
    [positional |-> TRUE, dest |-> <<"a", "c", "t", "i", "o", "n">>,
     option_strings |-> <<>>, kwargs |-> <<>>, choices |-> actions]

\* argparse.ArgumentParser(...): the -h/--help argument is there from the start
ArgumentParser ==
    [arguments |-> <<[positional |-> FALSE, dest |-> <<"h", "e", "l", "p">>,
                      option_strings |-> <<<<"-", "h">>, <<"-", "-", "h", "e", "l", "p">>>>,
                      kwargs |-> <<>>, choices |-> <<>>]>>,
     defaults  |-> <<>>,
     raised    |-> NoError]

\* an option string the parser already holds
Conflicts(p, flags) ==
    \E i \in 1..Len(p.arguments), k \in 1..Len(flags) :
        InList(flags[k], p.arguments[i].option_strings)

\* parser.add_argument(*params.flags, **params.kwargs).  Nothing in
\* service_to_commandline.py catches what argparse raises: ArgumentError for
\* a conflicting option string, TypeError for nargs given to store_true.
add_argument(p, params) ==
    IF p.raised # NoError THEN p
    ELSE IF params.kwargs.action = "store_true" /\ params.kwargs.nargs # Absent
    THEN [p EXCEPT !.raised = "TypeError"]
    ELSE IF Conflicts(p, params.flags)
    THEN [p EXCEPT !.raised = "ArgumentError"]
    ELSE [p EXCEPT !.arguments =
             Append(@, OptionalArgument(params.flags, params.kwargs))]

RECURSIVE AddArguments(_, _, _)
\* `for params in group: parser.add_argument(...)` from item i on
AddArguments(p, group, i) ==
    IF i > Len(group) THEN p
    ELSE AddArguments(add_argument(p, group[i]), group, i + 1)

RECURSIVE WalkMethods(_, _, _, _)
\* `for method, params_group in interface_methods.items()` from item i on;
\* w is [parser, actions]
WalkMethods(w, methods, names, i) ==
    IF i > Len(methods) THEN w
    ELSE IF ~InList(methods[i].name, names)
    THEN WalkMethods(w, methods, names, i + 1)
    ELSE IF methods[i].params = <<>>
    THEN WalkMethods([w EXCEPT !.actions = Append(@, Replace(methods[i].name, "_", "-"))],
                     methods, names, i + 1)
    ELSE WalkMethods([w EXCEPT !.parser = AddArguments(@, methods[i].params, 1)],
                     methods, names, i + 1)

\* `if actions: parser.add_argument('action', choices=actions)`
AddAction(w) ==
    IF w.parser.raised # NoError \/ w.actions = <<>> THEN w.parser
    ELSE [w.parser EXCEPT !.arguments = Append(@, ActionArgument(w.actions))]

\* the body of MultipleResponsibilityInterface.get_parser, on parser p
AssembleMultiple(p, base, methods, names) ==
    AddAction(WalkMethods([parser |-> AddArguments(p, base, 1), actions |-> <<>>],
                          methods, names, 1))

\* the body of SingleResponsibilityInterface.get_parser, on parser p
AssembleSingle(p, base, params) ==
    AddArguments(AddArguments(p, base, 1), params, 1)

\* parent_parser.add_parser(command_name) and set_defaults(sub_interface=...)
SubParser(command_name) ==
    [ArgumentParser EXCEPT !.defaults =
        <<[name |-> <<"s", "u", "b", "_", "i", "n", "t", "e", "r", "f", "a", "c", "e">>, value |-> PyStr(command_name)]>>]

\* what a caller of get_parser holds once it returned or raised (the parser
\* is a local of get_parser: it is lost when add_argument raises)
Grammar(p) == IF p.raised = NoError
              THEN [arguments |-> p.arguments, defaults |-> p.defaults]
              ELSE NoParser

\* what the parent parser holds under the command name once
\* append_interface_to_parser returned or raised: add_parser and
\* set_defaults have run, and every add_argument before the one that raised
SubCommand(p) == [arguments |-> p.arguments, defaults |-> p.defaults]

AssembledAs(p) == IF p.raised = NoError THEN "Assembled" ELSE "Unassembled"

\* an interface object exists: __init__ returned
InterfaceExists ==
    /\ iface \in {"SingleResponsibilityInterface", "MultipleResponsibilityInterface"}
    /\ pc \notin {"Idle", "Failed"}

\* A caller builds an interface, may add flags and descriptions to its
\* FlagSpecs, assembles a grammar (again, or another one), parses a command
\* line and executes, and may then call get_parser again.
\* No grammar has been assembled on the interface yet:
NothingAssembledYet ==
    /\ InterfaceExists
    /\ pc \in {"Built", "Flagged", "Described"}

\* no command line has been parsed and nothing executed yet
NothingRunYet ==
    /\ InterfaceExists
    /\ pc \in {"Built", "Flagged", "Described", "Assembled", "Unassembled"}

\* a call that parses no command line, calls nothing on the target type and
\* prints nothing
NothingRun ==
    /\ args' = PyNone /\ argv' = NoArgv
    /\ calls' = <<>> /\ stdout' = <<>> /\ result' = NoResult

\* an execute pass has just run on the interface (and returned or raised)
ExecutePassed ==
    /\ InterfaceExists
    /\ pc \in {"Executed", "Raised"}

\* MultipleResponsibilityInterface.get_parser: the first call on the
\* interface, a call after another assembly, or a call after an execute
\* pass.  prev_parser keeps the grammar get_parser had returned when the
\* call follows an execute pass that ran on a command line parsed with it.
GetParserMultiple ==
    /\ iface = "MultipleResponsibilityInterface"
    /\ NothingRunYet \/ ExecutePassed
    /\ \E p \in {AssembleMultiple(ArgumentParser, base_params, interface_methods,
                                  supported_method_names)} :
          /\ parser' = Grammar(p)
          /\ raised' = p.raised
          /\ pc' = AssembledAs(p)
    /\ prev_parser' = (IF ExecutePassed /\ parser # NoParser /\ parser.defaults = <<>>
                       THEN parser ELSE NoParser)
    /\ NothingRun
    /\ UNCHANGED <<iface, defaults, config_obj, changed_rows, prev_obj, prev_args,
                   extractorVars, supported_method_names, entry_method_name,
                   interface_params, sub_parsers>>

\* SingleResponsibilityInterface.get_parser
GetParserSingle ==
    /\ iface = "SingleResponsibilityInterface"
    /\ NothingRunYet \/ ExecutePassed
    /\ \E p \in {AssembleSingle(ArgumentParser, base_params, interface_params)} :
          /\ parser' = Grammar(p)
          /\ raised' = p.raised
          /\ pc' = AssembledAs(p)
    /\ prev_parser' = (IF ExecutePassed /\ parser # NoParser /\ parser.defaults = <<>>
                       THEN parser ELSE NoParser)
    /\ NothingRun
    /\ UNCHANGED <<iface, defaults, config_obj, changed_rows, prev_obj, prev_args,
                   extractorVars, supported_method_names, entry_method_name,
                   interface_params, sub_parsers>>

CommandName == <<"c", "m", "d">>

\* mutant: the sub-command takes the operation's flags before the base flags
append_interface_to_parser_OperationFirst(command_name, kind, base, params, methods, names) ==
    IF kind = "SingleResponsibilityInterface"
    THEN AddArguments(SubParser(command_name), params \o base, 1)
    ELSE AddArguments(AddAction(WalkMethods([parser  |-> SubParser(command_name),
                                             actions |-> <<>>],
                                            methods, names, 1)), base, 1)

\* append_interface_to_parser(parent_parser, command_name, interface): the
\* sub-parser with its sub_interface default, then one loop over
\* base_params + interface_params (isinstance Single), or the base loop, the
\* walk over interface_methods and `if actions:` (isinstance Multiple)
append_interface_to_parser(command_name, kind, base, params, methods, names) ==
    IF kind = "SingleResponsibilityInterface"
    THEN AddArguments(SubParser(command_name), base \o params, 1)
    ELSE AddAction(WalkMethods([parser  |-> AddArguments(SubParser(command_name), base, 1),
                                actions |-> <<>>],
                               methods, names, 1))

\* append_interface_to_parser(sub_parsers, 'cmd', interface), on the
\* sub_parsers of a new parent (fresh) or on the one the interface was
\* attached to before, whatever assembly ran in between.  add_parser with
\* a name the sub_parsers holds raises ArgumentError (conflicting
\* subparser) on Python 3.11, before anything is added: the sub-command
\* stays as it was, and so does what the caller holds.  On Python 3.8
\* add_parser replaces the sub-parser.
AppendInterfaceToParser ==
    /\ NothingRunYet
    /\ \E py \in PythonVersions, fresh \in BOOLEAN :
          IF ~fresh /\ sub_parsers # NoParser /\ py = "3.11"
          THEN /\ UNCHANGED <<parser, sub_parsers>>
               /\ raised' = "ArgumentError"
               /\ pc' = "Unassembled"
          ELSE \E p \in {append_interface_to_parser(CommandName, iface, base_params,
                                                    interface_params, interface_methods,
                                                    supported_method_names)} :
                  /\ parser' = SubCommand(p)
                  /\ sub_parsers' = SubCommand(p)
                  /\ raised' = p.raised
                  /\ pc' = AssembledAs(p)
    /\ prev_parser' = NoParser
    /\ NothingRun
    /\ UNCHANGED <<iface, defaults, config_obj, changed_rows, prev_obj, prev_args,
                   extractorVars, supported_method_names, entry_method_name,
                   interface_params>>

\* most add_flag and add_description calls a caller makes on the FlagSpecs
\* of one interface
MaxEdits == 1

\* the flags a caller adds to a FlagSpec
AddedFlags == {<<"-", "c">>, <<"-", "h">>}

\* the descriptions a caller gives a FlagSpec (no docstring of the target
\* types holds them)
AddedDescriptions == {PyStr(<<"h", "o", "w", " ", "m", "a", "n", "y">>)}

\* ArgparseParameters.add_flag(flag): self.flags.append(flag)
add_flag(params, flag) == [params EXCEPT !.flags = Append(@, flag)]

RECURSIVE GroupEdits(_, _)
\* flags added to, and descriptions given to, the FlagSpecs of a group from
\* item i on (get_argparse_parameters gives every FlagSpec one flag)
GroupEdits(group, i) ==
    IF i > Len(group) THEN 0
    ELSE (Len(group[i].flags) - 1)
         + (IF group[i].kwargs.help \in AddedDescriptions THEN 1 ELSE 0)
         + GroupEdits(group, i + 1)

RECURSIVE MethodEdits(_, _)
MethodEdits(methods, i) ==
    IF i > Len(methods) THEN 0
    ELSE GroupEdits(methods[i].params, 1) + MethodEdits(methods, i + 1)

\* what a caller changed so far on the FlagSpecs the interface holds
CallerEdits == GroupEdits(base_params, 1) + MethodEdits(interface_methods, 1)

\* params.add_flag(flag) on a FlagSpec the interface assembles its grammar
\* from: one of base_params, or of the group interface_methods holds for a
\* whitelisted method or for the entry method.  The interface_params of a
\* SingleResponsibilityInterface is the very list interface_methods holds
\* for the entry method.
AddFlag ==
    /\ NothingAssembledYet
    /\ CallerEdits < MaxEdits
    /\ \E flag \in AddedFlags :
          \/ \E j \in 1..Len(base_params) :
                /\ base_params' = [base_params EXCEPT ![j] = add_flag(@, flag)]
                /\ UNCHANGED <<interface_methods, interface_params>>
          \/ \E i \in 1..Len(interface_methods) :
                \E j \in 1..Len(interface_methods[i].params) :
                   /\ \/ InList(interface_methods[i].name, supported_method_names)
                      \/ interface_methods[i].name = entry_method_name
                   /\ interface_methods' =
                         [interface_methods EXCEPT ![i].params[j] = add_flag(@, flag)]
                   /\ interface_params' =
                         (IF iface = "SingleResponsibilityInterface"
                          THEN ItemOf(interface_methods', entry_method_name).params
                          ELSE interface_params)
                   /\ UNCHANGED base_params
    /\ pc' = "Flagged"
    /\ raised' = NoError
    /\ NothingRun
    /\ UNCHANGED <<iface, defaults, cls, config_obj, changed_rows, prev_obj, prev_args,
                   supported_method_names, entry_method_name, parser,
                   sub_parsers, prev_parser>>

\* params.add_description(description) on a FlagSpec the interface
\* assembles its grammar from
AddDescription ==
    /\ NothingAssembledYet
    /\ CallerEdits < MaxEdits
    /\ \E description \in AddedDescriptions :
          \/ \E j \in 1..Len(base_params) :
                /\ base_params' = [base_params EXCEPT ![j] = add_description(@, description)]
                /\ UNCHANGED <<interface_methods, interface_params>>
          \/ \E i \in 1..Len(interface_methods) :
                \E j \in 1..Len(interface_methods[i].params) :
                   /\ \/ InList(interface_methods[i].name, supported_method_names)
                      \/ interface_methods[i].name = entry_method_name
                   /\ interface_methods' =
                         [interface_methods EXCEPT ![i].params[j] = add_description(@, description)]
                   /\ interface_params' =
                         (IF iface = "SingleResponsibilityInterface"
                          THEN ItemOf(interface_methods', entry_method_name).params
                          ELSE interface_params)
                   /\ UNCHANGED base_params
    /\ pc' = "Described"
    /\ raised' = NoError
    /\ NothingRun
    /\ UNCHANGED <<iface, defaults, cls, config_obj, changed_rows, prev_obj, prev_args,
                   supported_method_names, entry_method_name, parser,
                   sub_parsers, prev_parser>>

---------------------------------------------------------------------------
(* Parsing a command line against an assembled grammar (argparse) *)

\* a float value
PyFloat(n) == [kind |-> "float", s |-> <<>>, n |-> n, b |-> FALSE]

\* no value: the conversion raised ValueError
Invalid == [kind |-> "invalid", s |-> <<>>, n |-> 0, b |-> FALSE]

\* the decimal digit a character stands for (10: not a digit)
DigitValue(c) ==
    IF \E d \in 1..10 : Digits[d] = c
    THEN (CHOOSE d \in 1..10 : Digits[d] = c) - 1
    ELSE 10

RECURSIVE DecimalValue(_, _)
\* the number written by the first i characters of a string of digits
DecimalValue(s, i) ==
    IF i = 0 THEN 0 ELSE 10 * DecimalValue(s, i - 1) + DigitValue(s[i])

IsDecimal(s) == Len(s) > 0 /\ \A i \in 1..Len(s) : DigitValue(s[i]) < 10

\* type(raw) as argparse applies the `type` kwarg to a raw token
Convert(type, raw) ==
    CASE type = "int"   -> IF IsDecimal(raw) THEN PyInt(DecimalValue(raw, Len(raw)))
                           ELSE Invalid
      [] type = "float" -> IF IsDecimal(raw) THEN PyFloat(DecimalValue(raw, Len(raw)))
                           ELSE Invalid
      [] OTHER          -> PyStr(raw)

\* the optional arguments of a grammar other than -h/--help, and its
\* positional arguments
Optionals(p) ==
    SelectSeq(p.arguments, LAMBDA a : ~a.positional /\ a.dest # <<"h", "e", "l", "p">>)
Positionals(p) == SelectSeq(p.arguments, LAMBDA a : a.positional)

\* a list value (its items in field s)
PyList(items) == [kind |-> "list", s |-> items, n |-> 0, b |-> FALSE]

RECURSIVE Split(_)
\* the tokens typed after a flag: the text cut at its blanks
Split(raw) ==
    IF raw = <<>> THEN <<>>
    ELSE LET blanks == {i \in 1..Len(raw) : raw[i] = " "}
             cut    == IF blanks = {} THEN Len(raw) + 1
                       ELSE CHOOSE i \in blanks : \A j \in blanks : i <= j
         IN  <<SubSeq(raw, 1, cut - 1)>> \o Split(SubSeq(raw, cut + 1, Len(raw)))

\* nargs='+': one or more tokens, each converted with `type`
ListValue(type, raw) ==
    LET tokens == Split(raw)
        items  == [i \in 1..Len(tokens) |-> Convert(type, tokens[i])]
    IN  IF tokens = <<>> \/ \E i \in 1..Len(items) : items[i] = Invalid
        THEN Invalid
        ELSE PyList(items)

\* the option strings of an argument: its flag and the flags added to it
OptionStrings(a) == {a.option_strings[k] : k \in 1..Len(a.option_strings)}

\* the option strings of argument a that command line cl types
TypedStrings(a, cl) ==
    {k \in 1..Len(a.option_strings) : a.option_strings[k] \in DOMAIN cl.options}

IsTyped(a, cl) == TypedStrings(a, cl) # {}

\* the option string of a typed last (the option strings of one argument
\* are typed in the order the argument lists them)
TypedKey(a, cl) ==
    a.option_strings[CHOOSE k \in TypedStrings(a, cl) :
                        \A j \in TypedStrings(a, cl) : j <= k]

\* the value one occurrence of an optional argument stores from what is
\* typed after it
OccurrenceValue(a, raw) ==
    IF a.kwargs.action = "store_true" THEN PyBool(TRUE)
    ELSE IF a.kwargs.nargs = "+" THEN ListValue(a.kwargs.type, raw)
    ELSE IF Len(Split(raw)) = 1 THEN Convert(a.kwargs.type, raw)
    ELSE Invalid

\* the value an optional argument gets from command line cl; Invalid stands
\* for the usage error (flag required but missing, wrong number of tokens,
\* or value not convertible).  A default that is a str is converted like a
\* typed token when the flag is left out.
OptionalValue(a, cl) ==
    IF IsTyped(a, cl)
    THEN IF \E k \in TypedStrings(a, cl) :
                OccurrenceValue(a, cl.options[a.option_strings[k]]) = Invalid
         THEN Invalid
         ELSE OccurrenceValue(a, cl.options[TypedKey(a, cl)])
    ELSE IF a.kwargs.required THEN Invalid
    ELSE IF a.kwargs.default.kind = "str"
    THEN Convert(a.kwargs.type, a.kwargs.default.s)
    ELSE IF a.kwargs.default # PyNone THEN a.kwargs.default
    ELSE IF a.kwargs.action = "store_true" THEN PyBool(FALSE)
    ELSE PyNone

\* the positional tokens match the positional arguments one to one, each
\* token among the argument's choices
PositionalsAccepted(p, cl) ==
    /\ Len(cl.positionals) = Len(Positionals(p))
    /\ \A i \in 1..Len(cl.positionals) :
          InList(cl.positionals[i], Positionals(p)[i].choices)

\* the parser's set_defaults entries as a dict
DefaultsDict(p) ==
    [n \in {p.defaults[i].name : i \in 1..Len(p.defaults)} |->
        (ItemOf(p.defaults, n)).value]

\* left.update(right) on dicts
DictUpdate(left, right) ==
    [n \in DOMAIN left \cup DOMAIN right |->
        IF n \in DOMAIN right THEN right[n] ELSE left[n]]

\* {k: d[k] for k in keys}
Restrict(d, keys) == [k \in keys |-> d[k]]

\* add_argument without a `default` kwarg takes the parser-level default
\* set_defaults recorded for the dest, if there is one
WithParserDefault(a, p) ==
    IF a.kwargs.default = PyNone /\ a.dest \in DOMAIN DefaultsDict(p)
    THEN [a EXCEPT !.kwargs.default = DefaultsDict(p)[a.dest]]
    ELSE a

RECURSIVE JoinTokens(_, _, _)
\* raw followed by the tokens from the i-th on, blanks in between
JoinTokens(raw, tokens, i) ==
    IF i > Len(tokens) THEN raw
    ELSE JoinTokens(IF raw = <<>> THEN tokens[i] ELSE raw \o <<" ">> \o tokens[i],
                    tokens, i + 1)

\* The command line as argparse cuts it up.  The flags are typed in the
\* order of the grammar; a nargs='+' flag takes every token up to the next
\* flag, so when it is the last flag typed and the action token follows, the
\* flag takes that token too.
Typed(p, cl) ==
    LET opts  == Optionals(p)
        given == {i \in 1..Len(opts) : IsTyped(opts[i], cl)}
        final == CHOOSE i \in given : \A j \in given : j <= i
    IN  IF /\ cl.last = "positionals" /\ cl.positionals # <<>> /\ given # {}
           /\ opts[final].kwargs.nargs = "+"
           /\ opts[final].kwargs.action # "store_true"
        THEN [cl EXCEPT !.options[TypedKey(opts[final], cl)] =
                            JoinTokens(@, cl.positionals, 1),
                        !.positionals = <<>>]
        ELSE cl

\* vars(parser.parse_args(argv)), or the usage error (SystemExit) argparse
\* raises.  Every dest starts at its default; then the arguments store
\* their values in the order they are typed, so of a flag and a positional
\* that share a dest the one typed last is kept.
parse_args(p, argv_) ==
    LET cl     == Typed(p, argv_)
        opts   == Optionals(p)
        pos    == Positionals(p)
        flags  == UNION {OptionStrings(opts[i]) : i \in 1..Len(opts)}
        values == [n \in {opts[i].dest : i \in 1..Len(opts)} |->
                      OptionalValue(WithParserDefault(
                          opts[CHOOSE i \in 1..Len(opts) : opts[i].dest = n], p), cl)]
        typed  == Restrict(values, {opts[i].dest : i \in
                      {j \in 1..Len(opts) : IsTyped(opts[j], cl)}})
        tokens == [n \in {pos[i].dest : i \in 1..Len(pos)} |->
                      PyStr(cl.positionals[CHOOSE i \in 1..Len(pos) : pos[i].dest = n])]
        stored == DictUpdate(DictUpdate(DefaultsDict(p), values), tokens)
    IN  IF \/ ~(DOMAIN cl.options \subseteq flags)
           \/ ~PositionalsAccepted(p, cl)
           \/ \E n \in DOMAIN values : values[n] = Invalid
        THEN [raised |-> "SystemExit", namespace |-> EmptyDict]
        ELSE [raised |-> NoError,
              namespace |-> IF cl.last = "options" THEN DictUpdate(stored, typed)
                            ELSE stored]

\* raw tokens typed after a flag that takes a value
RawValues == {<<"3">>, <<"x">>}

\* what is typed after a flag that takes one or more values
RawLists == {<<>>, <<"3">>, <<"3", " ", "4">>, <<"3", " ", "x">>}

\* tokens handed to execute as the action
BogusName    == <<"b", "o", "g", "u", "s">>
ActionTokens == {StartName, StopName, <<"s", "t", "a", "t", "u", "s">>, <<"s", "e", "t", "u", "p">>, BogusName}

\* the orders in which a command line for grammar p is tried: the flags
\* first and the action token last; the other way round as well where the
\* order decides what is parsed (a flag and a positional share a dest, or a
\* flag takes one or more values)
Orders(p) ==
    IF \/ \E i \in 1..Len(Optionals(p)), j \in 1..Len(Positionals(p)) :
              Optionals(p)[i].dest = Positionals(p)[j].dest
       \/ \E i \in 1..Len(Optionals(p)) : Optionals(p)[i].kwargs.nargs = "+"
    THEN {"positionals", "options"}
    ELSE {"positionals"}

\* tokens typed where the action goes besides the choices of the grammar:
\* an operation that takes parameters, and no operation at all
TypedTokens == {<<"s", "e", "t", "u", "p">>, BogusName}

\* the command lines tried against grammar p: each of its flags given (by
\* one of its option strings) or left out, and no token or one token for
\* the action
CommandLines(p) ==
    LET opts    == Optionals(p)
        toggles == UNION {OptionStrings(opts[i]) : i \in {j \in 1..Len(opts) :
                       opts[j].kwargs.action = "store_true"}}
        valued  == UNION {OptionStrings(opts[i]) : i \in {j \in 1..Len(opts) :
                       opts[j].kwargs.action # "store_true" /\ opts[j].kwargs.nargs # "+"}}
        listed  == UNION {OptionStrings(opts[i]) : i \in {j \in 1..Len(opts) :
                       opts[j].kwargs.action # "store_true" /\ opts[j].kwargs.nargs = "+"}}
        choices == UNION {{Positionals(p)[i].choices[k] :
                              k \in 1..Len(Positionals(p)[i].choices)} :
                          i \in 1..Len(Positionals(p))}
    IN  {cl \in {[given |-> TRUE, options |-> DictUpdate(DictUpdate(t, v), l),
          positionals |-> ps, last |-> o] :
            t  \in UNION {[S -> {<<>>}] : S \in SUBSET toggles},
            v  \in UNION {[S -> RawValues] : S \in SUBSET valued},
            l  \in UNION {[S -> RawLists] : S \in SUBSET listed},
            ps \in {<<>>} \cup {<<tok>> : tok \in TypedTokens \cup choices},
            o  \in Orders(p)} :
            \A i \in 1..Len(opts) : Cardinality(TypedStrings(opts[i], cl)) <= 1}

ParsedAs(out) == IF out.raised = NoError THEN "Parsed" ELSE "Rejected"

\* args = interface.get_parser().parse_args(): a command line parsed with
\* the grammar get_parser returned, on an interface that is attached to no
\* parent parser (a command line for an attached interface goes through the
\* parent, see Main)
ParseArgs ==
    /\ NothingRunYet
    /\ parser # NoParser /\ parser.defaults = <<>>
    /\ sub_parsers = NoParser
    /\ \E cl \in CommandLines(parser) :
          \E out \in {parse_args(parser, cl)} :
             /\ argv' = cl
             /\ args' = out.namespace
             /\ raised' = out.raised
             /\ pc' = ParsedAs(out)
    /\ calls' = <<>> /\ stdout' = <<>> /\ result' = NoResult
    /\ prev_parser' = NoParser
    /\ UNCHANGED <<iface, defaults, config_obj, changed_rows, prev_obj, prev_args,
                   extractorVars, supported_method_names, entry_method_name,
                   interface_params, parser, sub_parsers>>

---------------------------------------------------------------------------
(* One declared parameter through extraction and mapping *)

IntervalName == <<"i", "n", "t", "e", "r", "v", "a", "l">>
UseListName  == <<"u", "s", "e", "L", "i", "s", "t">>
RunName      == <<"r", "u", "n">>
InitName     == <<"_", "_", "i", "n", "i", "t", "_", "_">>

\* the declared types of section "FlagSpec": scalars, lists, optionals, none
DeclaredTypes ==
    {Scalar("bool"), Scalar("int"), Scalar("float"), Scalar("str"),
     ListOf("str"), ListOf("int"), ListOf("bool"),
     OptionalOf("int"), OptionalOf("str"), Untyped}

\* `= <default>` in the def statement, or nothing
SignatureDefaults == {Empty, PyNone, PyInt(5)}

\* one parameter: its name (plain, holding 'int', holding 'List'), its
\* declared type and its default
MapperParams ==
    {Param(n, t, d) : n \in {CountName, IntervalName, UseListName},
                      t \in DeclaredTypes, d \in SignatureDefaults}

\* class Target:                          class Target:
\*     def __init__(self, <p>): ...            def __init__(self): ...
\*     def run(self): ...                      def run(self, <p>): ...
MapperClass(p, owner, py) ==
    <<[members |-> <<Function(InitName, IF owner = InitName THEN <<p>> ELSE <<>>,
                              PyNone, py),
                     Function(RunName, IF owner = RunName THEN <<p>> ELSE <<>>,
                              PyStr(<<"d", "o", "n", "e">>), py)>>],
      ObjectClass>>

MapperTypes ==
    {MapperClass(p, owner, py) : p \in MapperParams, owner \in {InitName, RunName},
                                 py \in PythonVersions}

\* the values a caller can give as an external default
ExternalValues ==
    {PyBool(FALSE), PyBool(TRUE), PyInt(0), PyInt(7), PyStr(<<>>), PyStr(<<"x">>)}

MapperDefaults ==
    {EmptyDict} \cup {[n \in {name} |-> v] : name \in {CountName, IntervalName},
                                             v \in ExternalValues}

\* before the interface is constructed on a one-parameter target type
InitMapper ==
    /\ iface \in {"SingleResponsibilityInterface", "MultipleResponsibilityInterface"}
    /\ cls \in MapperTypes
    /\ defaults \in MapperDefaults
    /\ supported_method_names = (IF iface = "MultipleResponsibilityInterface"
                                 THEN <<RunName>> ELSE <<>>)
    /\ entry_method_name = (IF iface = "SingleResponsibilityInterface"
                            THEN RunName ELSE <<>>)
    /\ base_params = <<>> /\ interface_methods = <<>> /\ interface_params = <<>>
    /\ parser = NoParser /\ argv = NoArgv
    /\ sub_parsers = NoParser /\ prev_parser = NoParser
    /\ calls = <<>> /\ stdout = <<>> /\ raised = NoError
    /\ pc = "Idle"
    /\ config_obj = <<>> /\ changed_rows = <<>> /\ args = PyNone
    /\ prev_obj = <<>> /\ prev_args = PyNone /\ result = NoResult

NextMapper ==
    \/ ConstructMultiple \/ ConstructSingle
    \/ GetParserMultiple \/ GetParserSingle \/ ParseArgs

SpecMapper == InitMapper /\ [][NextMapper]_vars

---------------------------------------------------------------------------
(* execute of the two command-line interfaces *)

ActionKey       == <<"a", "c", "t", "i", "o", "n">>
SubInterfaceKey == <<"s", "u", "b", "_", "i", "n", "t", "e", "r", "f", "a", "c", "e">>

\* getattr(instance, name): no attribute of that name on any class
NoAttr == [name |-> <<>>, callable |-> FALSE]

\* getattr(instance, name): the first class of the __mro__ that has it
ResolveAttr(mro, name) ==
    LET has(i) == \E k \in 1..Len(mro[i].members) : mro[i].members[k].name = name
    IN  IF \E i \in 1..Len(mro) : has(i)
        THEN LET c == CHOOSE i \in 1..Len(mro) : has(i) /\ \A j \in 1..(i - 1) : ~has(j)
                 k == CHOOSE k \in 1..Len(mro[c].members) : mro[c].members[k].name = name
             IN  mro[c].members[k]
        ELSE NoAttr

\* f(**kwargs) binds: every keyword is a parameter of f, and every
\* parameter without a default is given (else Python raises TypeError)
Binds(f, kwargs) ==
    /\ f.callable
    /\ DOMAIN kwargs \subseteq {f.signature[i].name : i \in 1..Len(f.signature)}
    /\ \A i \in 1..Len(f.signature) :
          f.signature[i].default = Empty => f.signature[i].name \in DOMAIN kwargs

\* the call f(**kwargs) as the target type sees it
Call(name, f, kwargs) == [callee |-> name, kwargs |-> kwargs, ok |-> Binds(f, kwargs)]

\* str(value), as print writes it
Str(v) == IF v.kind = "str" THEN v.s ELSE Repr(v)

\* the names of the base FlagSpecs: [p.name for p in self.base_params]
BaseNames(base) == {base[i].name : i \in 1..Len(base)}

\* MultipleResponsibilityInterface.execute(args, print_to_stdout); bag is
\* vars(args).  The method returns None whenever it returns.
MultipleResponsibilityInterface_execute(mro, base, bag, print_to_stdout) ==
    LET constructor_kwargs == Restrict(bag, (DOMAIN bag \ {ActionKey}) \cap BaseNames(base))
        kwargs == Restrict(bag, (DOMAIN bag \ {ActionKey}) \ BaseNames(base))
        init   == Call(InitName, ResolveInit(mro), constructor_kwargs)
    IN  IF ~init.ok
        THEN [calls |-> <<init>>, stdout |-> <<>>, raised |-> "TypeError"]
        ELSE IF ActionKey \notin DOMAIN bag
        THEN [calls |-> <<init>>, stdout |-> <<>>, raised |-> "AttributeError"]
        ELSE LET method == Replace(bag[ActionKey].s, "-", "_")
                 attr   == ResolveAttr(mro, method)
                 entry_method_kwargs == Restrict(kwargs, DOMAIN kwargs \ {SubInterfaceKey})
                 entry  == Call(method, attr, entry_method_kwargs)
             IN  IF attr = NoAttr
                 THEN [calls |-> <<init>>, stdout |-> <<>>, raised |-> "AttributeError"]
                 ELSE IF ~entry.ok
                 THEN [calls |-> <<init, entry>>, stdout |-> <<>>, raised |-> "TypeError"]
                 ELSE [calls |-> <<init, entry>>,
                       stdout |-> IF print_to_stdout THEN <<Str(attr.returns)>> ELSE <<>>,
                       raised |-> NoError]

\* SingleResponsibilityInterface.execute(args); bag is vars(args).  Nothing
\* is printed and the method returns None whenever it returns.
SingleResponsibilityInterface_execute(mro, base, entry_name, bag) ==
    LET constructor_kwargs == Restrict(bag, DOMAIN bag \cap BaseNames(base))
        entry_method_kwargs == Restrict(bag, DOMAIN bag \ BaseNames(base))
        init  == Call(InitName, ResolveInit(mro), constructor_kwargs)
        attr  == ResolveAttr(mro, entry_name)
        entry == Call(entry_name, attr, entry_method_kwargs)
    IN  IF ~init.ok
        THEN [calls |-> <<init>>, stdout |-> <<>>, raised |-> "TypeError"]
        ELSE IF attr = NoAttr
        THEN [calls |-> <<init>>, stdout |-> <<>>, raised |-> "AttributeError"]
        ELSE IF ~entry.ok
        THEN [calls |-> <<init, entry>>, stdout |-> <<>>, raised |-> "TypeError"]
        ELSE [calls |-> <<init, entry>>, stdout |-> <<>>, raised |-> NoError]

\* a value fit for a FlagSpec, as a caller that fills a Namespace by hand
\* would give it
HandedValue(params) ==
    IF params.kwargs.action = "store_true" THEN PyBool(TRUE)
    ELSE IF params.kwargs.type = "int" THEN PyInt(3)
    ELSE PyStr(<<"x">>)

\* Namespaces handed to execute without parsing: a value for every base
\* FlagSpec and any token as the action
HandedBags(base) ==
    {DictUpdate([n \in BaseNames(base) |-> HandedValue(ItemOf(base, n))],
                [n \in {ActionKey} |-> PyStr(tok)]) : tok \in ActionTokens}

ExecutedAs(out) == IF out.raised = NoError THEN "Executed" ELSE "Raised"

\* mutant: execute uses the base FlagSpecs up (the interface forgets them)
ExecuteMultiple_ConsumesBaseParams ==
    /\ iface = "MultipleResponsibilityInterface"
    /\ pc = "Parsed" \/ NothingAssembledYet
    /\ \E bag \in (IF pc = "Parsed" THEN {args} ELSE HandedBags(base_params)),
          print_to_stdout \in BOOLEAN :
          \E out \in {MultipleResponsibilityInterface_execute(cls, base_params, bag,
                                                              print_to_stdout)} :
             /\ args' = bag
             /\ calls' = out.calls
             /\ stdout' = out.stdout
             /\ raised' = out.raised
             /\ result' = (IF out.raised = NoError THEN PyNone ELSE NoResult)
             /\ pc' = ExecutedAs(out)
    /\ argv' = (IF pc = "Parsed" THEN argv ELSE NoArgv)
    /\ base_params' = <<>>
    /\ UNCHANGED <<iface, defaults, config_obj, changed_rows, prev_obj, prev_args,
                   cls, interface_methods, supported_method_names,
                   entry_method_name, interface_params, parser, sub_parsers,
                   prev_parser>>

\* interface.execute(args, print_to_stdout) on a MultipleResponsibilityInterface:
\* on the Namespace parse_args has just returned, or, on an interface no
\* grammar was assembled for, on one the caller built
ExecuteMultiple ==
    /\ iface = "MultipleResponsibilityInterface"
    /\ pc = "Parsed" \/ NothingAssembledYet
    /\ \E bag \in (IF pc = "Parsed" THEN {args} ELSE HandedBags(base_params)),
          print_to_stdout \in BOOLEAN :
          \E out \in {MultipleResponsibilityInterface_execute(cls, base_params, bag,
                                                              print_to_stdout)} :
             /\ args' = bag
             /\ calls' = out.calls
             /\ stdout' = out.stdout
             /\ raised' = out.raised
             /\ result' = (IF out.raised = NoError THEN PyNone ELSE NoResult)
             /\ pc' = ExecutedAs(out)
    /\ argv' = (IF pc = "Parsed" THEN argv ELSE NoArgv)
    /\ UNCHANGED <<iface, defaults, config_obj, changed_rows, prev_obj, prev_args,
                   extractorVars, supported_method_names, entry_method_name,
                   interface_params, parser, sub_parsers, prev_parser>>

\* interface.execute(args) on a SingleResponsibilityInterface
ExecuteSingle ==
    /\ iface = "SingleResponsibilityInterface"
    /\ pc = "Parsed"
    /\ \E out \in {SingleResponsibilityInterface_execute(cls, base_params,
                                                        entry_method_name, args)} :
          /\ calls' = out.calls
          /\ stdout' = out.stdout
          /\ raised' = out.raised
          /\ result' = (IF out.raised = NoError THEN PyNone ELSE NoResult)
          /\ pc' = ExecutedAs(out)
    /\ UNCHANGED <<iface, defaults, config_obj, changed_rows, args, prev_obj, prev_args,
                   extractorVars, supported_method_names, entry_method_name,
                   interface_params, parser, sub_parsers, prev_parser, argv>>

---------------------------------------------------------------------------
(* The entry point of a command with sub-commands (cmd/logstash/__main__.py) *)

\* what parser.print_help() writes
UsageText == <<"u", "s", "a", "g", "e">>

\* The try block: `if args.sub_interface == <name>: <name>.interface.execute(args)`.
\* A Namespace without sub_interface raises AttributeError at the first test;
\* a sub_interface that names no branch runs nothing.  execute returns None,
\* so the `if result:` block never prints.
Dispatch(kind, mro, base, entry, ns) ==
    IF SubInterfaceKey \notin DOMAIN ns
    THEN [calls |-> <<>>, stdout |-> <<>>, raised |-> "AttributeError"]
    ELSE IF ns[SubInterfaceKey] # PyStr(CommandName)
    THEN [calls |-> <<>>, stdout |-> <<>>, raised |-> NoError]
    ELSE IF kind = "MultipleResponsibilityInterface"
    THEN MultipleResponsibilityInterface_execute(mro, base, ns, TRUE)
    ELSE SingleResponsibilityInterface_execute(mro, base, entry, ns)

\* `except AttributeError: parser.print_help()`; any other exception leaves
\* the script
Caught(out) ==
    IF out.raised = "AttributeError"
    THEN [out EXCEPT !.stdout = Append(@, UsageText), !.raised = NoError]
    ELSE out

DispatchedAs(out) ==
    IF out.raised = "AttributeError" THEN "Helped"
    ELSE IF out.raised # NoError THEN "Raised"
    ELSE IF out.calls = <<>> THEN "Undispatched"
    ELSE "Executed"

\* One run of __main__ on a parent parser under which the interface has
\* just been attached as sub-command 'cmd' (or the attach was tried again):
\* parse_args, the dispatch on args.sub_interface, execute, and the except
\* clause.  Either no sub-command is typed (the Namespace is empty), or
\* 'cmd' and a command line for the grammar the parent holds under it.
Main ==
    /\ NothingRunYet
    /\ sub_parsers # NoParser
    /\ parser = sub_parsers
    /\ \/ \E out \in {Dispatch(iface, cls, base_params, entry_method_name, EmptyDict)} :
             /\ argv' = NoArgv
             /\ args' = EmptyDict
             /\ calls' = Caught(out).calls
             /\ stdout' = Caught(out).stdout
             /\ raised' = Caught(out).raised
             /\ pc' = DispatchedAs(out)
             /\ result' = NoResult
       \/ \E cl \in CommandLines(sub_parsers) :
             \E parsed \in {parse_args(sub_parsers, cl)} :
                /\ argv' = cl
                /\ args' = parsed.namespace
                /\ IF parsed.raised # NoError
                   THEN /\ calls' = <<>> /\ stdout' = <<>>
                        /\ raised' = parsed.raised
                        /\ pc' = "Rejected"
                        /\ result' = NoResult
                   ELSE \E out \in {Dispatch(iface, cls, base_params, entry_method_name,
                                              parsed.namespace)} :
                           /\ calls' = Caught(out).calls
                           /\ stdout' = Caught(out).stdout
                           /\ raised' = Caught(out).raised
                           /\ pc' = DispatchedAs(out)
                           /\ result' = (IF DispatchedAs(out) = "Executed"
                                         THEN PyNone ELSE NoResult)
    /\ UNCHANGED <<iface, defaults, config_obj, changed_rows, prev_obj, prev_args,
                   extractorVars, supported_method_names, entry_method_name,
                   interface_params, parser, sub_parsers, prev_parser>>

---------------------------------------------------------------------------
(* Target types taken through the whole pipeline *)

\* longest whitelist handed to a MultipleResponsibilityInterface
MaxWhitelist == 2

StatusName == <<"s", "t", "a", "t", "u", "s">>
SetupName  == <<"s", "e", "t", "u", "p">>
ResizeName == <<"r", "e", "s", "i", "z", "e">>

\* class Base:                          class Manager(Base):
\*     def __init__(self, <p>)              def start(self)
\*     def status(self)                     def setup(self, count: int)
\*     def stop(self)                       def resize(self, count: int)
ManagerClass(p, py) ==
    <<[members |-> <<Function(StartName, <<>>, PyBool(TRUE), py),
                     Function(SetupName, <<Param(CountName, Scalar("int"), Empty)>>,
                              PyStr(<<"o", "k">>), py),
                     Function(ResizeName, <<Param(CountName, Scalar("int"), Empty)>>,
                              PyInt(3), py)>>],
      [members |-> <<Function(InitName, <<p>>, PyNone, py),
                     Function(StatusName, <<>>, PyStr(<<"u", "p">>), py),
                     Function(StopName, <<>>, PyBool(FALSE), py)>>],
      ObjectClass>>

\* __init__(self, verbose: bool)  /  __init__(self, count: int)  /
\* __init__(self, action: str)  /  __init__(self, sub_interface: str)
ManagerTypes ==
    {ManagerClass(p, py) :
        p \in {Param(VerboseName, Scalar("bool"), Empty),
               Param(CountName, Scalar("int"), Empty),
               Param(ActionKey, Scalar("str"), Empty),
               Param(SubInterfaceKey, Scalar("str"), Empty)},
        py \in PythonVersions}

OperationNames == {StartName, StopName, StatusName, SetupName, ResizeName}

\* lists of distinct operation names, at most MaxWhitelist long
Whitelists ==
    {w \in UNION {[1..n -> OperationNames] : n \in 1..MaxWhitelist} :
        \A i, j \in 1..Len(w) : i # j => w[i] # w[j]}

\* before the interface is constructed on a manager type
InitCommandline ==
    /\ iface \in {"SingleResponsibilityInterface", "MultipleResponsibilityInterface"}
    /\ cls \in ManagerTypes
    /\ defaults = EmptyDict
    /\ supported_method_names \in (IF iface = "MultipleResponsibilityInterface"
                                   THEN Whitelists ELSE {<<>>})
    /\ entry_method_name \in (IF iface = "SingleResponsibilityInterface"
                              THEN OperationNames \cup {BogusName} ELSE {<<>>})
    /\ base_params = <<>> /\ interface_methods = <<>> /\ interface_params = <<>>
    /\ parser = NoParser /\ argv = NoArgv
    /\ sub_parsers = NoParser /\ prev_parser = NoParser
    /\ calls = <<>> /\ stdout = <<>> /\ raised = NoError
    /\ pc = "Idle"
    /\ config_obj = <<>> /\ changed_rows = <<>> /\ args = PyNone
    /\ prev_obj = <<>> /\ prev_args = PyNone /\ result = NoResult

NextCommandline ==
    \/ ConstructMultiple \/ ConstructSingle
    \/ GetParserMultiple \/ GetParserSingle \/ AppendInterfaceToParser
    \/ AddFlag \/ AddDescription \/ ParseArgs \/ ExecuteMultiple \/ ExecuteSingle \/ Main

SpecCommandline == InitCommandline /\ [][NextCommandline]_vars

---------------------------------------------------------------------------
(* The whole model *)

Init == InitAnalyzers \/ InitFilebeat \/ InitExtractor \/ InitMapper \/ InitCommandline

Next ==
    \/ ExecuteAnalyzers \/ ExecuteFilebeat \/ ReturnToCaller \/ BuildInterface
    \/ ConstructMultiple \/ ConstructSingle
    \/ GetParserMultiple \/ GetParserSingle \/ AppendInterfaceToParser
    \/ AddFlag \/ AddDescription \/ ParseArgs \/ ExecuteMultiple \/ ExecuteSingle \/ Main

Spec == Init /\ [][Next]_vars

---------------------------------------------------------------------------
(* The two config-object interfaces together *)

InitConfig == InitAnalyzers \/ InitFilebeat

NextConfig == ExecuteAnalyzers \/ ExecuteFilebeat \/ ReturnToCaller

SpecConfig == InitConfig /\ [][NextConfig]_vars

---------------------------------------------------------------------------
(* Properties of AnalyzersInterface.execute *)

\* an AnalyzersInterface.execute pass has just returned
AnalyzersPassed == iface = "AnalyzersInterface" /\ pc # "Idle"

\* positions of the analyzers the pass selected
Matched == {i \in 1..Len(prev_obj.analyzers) :
               InList(prev_obj.analyzers[i].id, args.analyzer_ids)}

\* C1: when a selected id matches an analyzer and both enable and disable
\* are requested, that analyzer ends the pass enabled (enable wins).
C1_EnableWins ==
    (AnalyzersPassed /\ args.enable /\ args.disable) =>
        \A i \in Matched : config_obj.analyzers[i].enabled = TRUE

\* the entries of a row list, as the set of ids they carry
RowIds(rows) == {rows[k].id : k \in 1..Len(rows)}

\* C2: with a non-empty selection and enable (not disable) requested, the
\* matched analyzers end enabled, every other analyzer keeps its enabled
\* flag and value, an id matching nothing is a no-op, changed_rows holds
\* one entry per matched analyzer, and the collection object is returned.
C2_EnableSelected ==
    (AnalyzersPassed /\ args.analyzer_ids # <<>> /\ args.enable /\ ~args.disable) =>
        /\ \A i \in Matched : config_obj.analyzers[i].enabled = TRUE
        /\ \A i \in (1..Len(prev_obj.analyzers)) \ Matched :
              config_obj.analyzers[i] = prev_obj.analyzers[i]
        /\ Len(changed_rows) = Cardinality(Matched)
        /\ RowIds(changed_rows) = {prev_obj.analyzers[i].id : i \in Matched}
        /\ result.kind = "config_obj"
        /\ pc = "Mutating"

\* C2 witness: ids [1, absent id] with --enable on a collection whose
\* analyzer 1 was disabled and whose analyzer 2 is not selected
C2_Witness ==
    /\ AnalyzersPassed
    /\ args.analyzer_ids = <<1, NumAnalyzers + 1>>
    /\ args.enable /\ ~args.disable
    /\ ~prev_obj.analyzers[1].enabled
    /\ config_obj.analyzers[1].enabled
    /\ config_obj.analyzers[2] = prev_obj.analyzers[2]
    /\ Len(changed_rows) = 1

\* C3: with an empty selection, whatever enable, disable and value are, the
\* result is a report with one row per analyzer in collection order (id,
\* name, enabled, value or 'N/A'), no analyzer is modified and changed_rows
\* is empty.
C3_EmptySelectionReports ==
    (AnalyzersPassed /\ args.analyzer_ids = <<>>) =>
        /\ result.kind = "report"
        /\ Len(result.rows) = Len(prev_obj.analyzers)
        /\ \A i \in 1..Len(prev_obj.analyzers) :
              result.rows[i] =
                  [id      |-> prev_obj.analyzers[i].id,
                   name    |-> prev_obj.analyzers[i].name,
                   enabled |-> prev_obj.analyzers[i].enabled,
                   value   |-> IF prev_obj.analyzers[i].value.kind = "None"
                               THEN NA ELSE prev_obj.analyzers[i].value.s]
        /\ config_obj = prev_obj
        /\ changed_rows = <<>>

\* C3 witness: an empty selection with enable, disable and a value all
\* supplied, after an earlier pass left changed_rows non-empty behind it
C3_Witness ==
    /\ AnalyzersPassed
    /\ args.analyzer_ids = <<>>
    /\ args.enable /\ args.disable /\ args.value = PyStr(<<"x">>)
    /\ result.kind = "report"
    /\ \E i \in 1..Len(config_obj.analyzers) :
          config_obj.analyzers[i].value = PyStr(<<";", "x", ";">>)

\* C8: after any sequence of passes the collection holds the same analyzers
\* in the same order with the same ids and names; only enabled and value
\* may differ.
C8_CollectionShape ==
    iface = "AnalyzersInterface" =>
        /\ Len(config_obj.analyzers) = NumAnalyzers
        /\ \A i \in 1..NumAnalyzers :
              /\ config_obj.analyzers[i].id = i
              /\ config_obj.analyzers[i].name = AnalyzerNames[i]

\* C8 witness: a pass that disabled analyzer 1 and gave it a new value
C8_Witness ==
    /\ AnalyzersPassed
    /\ pc = "Mutating"
    /\ args.disable
    /\ prev_obj.analyzers[1].enabled /\ ~config_obj.analyzers[1].enabled
    /\ prev_obj.analyzers[1].value # config_obj.analyzers[1].value

\* C9: with ids selected and a non-empty value supplied, every matched
\* analyzer's value is the supplied string if that ends with ';' and the
\* supplied string plus one ';' otherwise; so the assigned value ends with
\* ';' and an already terminated value is assigned as it is.
C9_ValueTerminated ==
    (AnalyzersPassed /\ prev_args.analyzer_ids # <<>> /\ prev_args.value.kind = "str"
       /\ prev_args.value.s # <<>>) =>
        \A i \in Matched :
            LET given == prev_args.value.s
                got   == config_obj.analyzers[i].value
            IN  /\ got.kind = "str"
                /\ got.s[Len(got.s)] = ";"
                /\ (given[Len(given)] = ";") => got.s = given
                /\ (given[Len(given)] # ";") =>
                      /\ Len(got.s) = Len(given) + 1
                      /\ SubSeq(got.s, 1, Len(given)) = given

\* C9 witness: both analyzers selected, value ';x' (a ';' inside, none at
\* the end) assigned to both as ';x;'
C9_Witness ==
    /\ AnalyzersPassed
    /\ prev_args.analyzer_ids = <<2, 1>>
    /\ prev_args.value = PyStr(<<";", "x">>)
    /\ args.value = PyStr(<<";", "x", ";">>)
    /\ config_obj.analyzers[1].value = PyStr(<<";", "x", ";">>)
    /\ config_obj.analyzers[2].value = PyStr(<<";", "x", ";">>)

---------------------------------------------------------------------------
(* Properties of FilebeatTargetsInterface.execute *)

FilebeatPassed == iface = "FilebeatTargetsInterface" /\ pc # "Idle"

\* C4: every pass of either interface ends Reporting (a report is returned)
\* or Mutating (the config object is returned), and a pass that returns a
\* report leaves the config object exactly as it found it.
C4_ReportOrMutate ==
    (iface \in {"AnalyzersInterface", "FilebeatTargetsInterface"} /\ pc # "Idle") =>
        /\ result.kind \in {"report", "config_obj"}
        /\ pc \in {"Reporting", "Mutating"}
        /\ (pc = "Reporting") <=> (result.kind = "report")
        /\ (result.kind = "report") => config_obj = prev_obj

\* C4 witness: a Filebeat pass that was handed only falsy values and so
\* reported, on an object an earlier pass had mutated
C4_Witness ==
    /\ FilebeatPassed
    /\ pc = "Reporting"
    /\ NamespaceGet(args, HostName) = PyStr(<<>>)
    /\ NamespaceGet(args, PortName) = PyInt(0)
    /\ config_obj[HostName] = PyStr(<<"b">>)
    /\ config_obj = prev_obj

\* the ChangeSet names of a pass
RowOptions(rows) == {rows[k].option : k \in 1..Len(rows)}

\* C5: a field of the value-bag is assigned onto the config object and
\* recorded in the ChangeSet iff its value is non-falsy and its name is not
\* enable/disable, not reserved and not a key of the defaults; every other
\* field leaves the attribute unchanged and is absent from the ChangeSet.
C5_AssignedIffEligible ==
    FilebeatPassed =>
        \A k \in 1..Len(args) :
            LET option == args[k].option
                value  == args[k].value
                falsy  == \/ value.kind = "None"
                          \/ value = PyStr(<<>>)
                          \/ value = PyInt(0)
                          \/ value = PyBool(FALSE)
                eligible == /\ ~falsy
                            /\ option \notin {EnableName, DisableName}
                            /\ option # SubInterface
                            /\ option \notin DOMAIN defaults
                hyphened == [j \in 1..Len(option) |->
                                IF option[j] = "_" THEN "-" ELSE option[j]]
            IN  option \notin {EnableName, DisableName} =>
                  /\ eligible =>
                        /\ option \in DOMAIN config_obj
                        /\ config_obj[option] = value
                        /\ \E r \in 1..Len(changed_rows) :
                              changed_rows[r] = [option |-> hyphened, value |-> value]
                  /\ ~eligible =>
                        /\ (option \in DOMAIN config_obj) <=> (option \in DOMAIN prev_obj)
                        /\ option \in DOMAIN prev_obj =>
                              config_obj[option] = prev_obj[option]
                        /\ hyphened \notin RowOptions(changed_rows)

\* C5 witness: {host: 'b'} on {host: '', port: 0, enabled: false}: host is
\* set, the ChangeSet is the one host entry
C5_Witness ==
    /\ FilebeatPassed
    /\ prev_obj[HostName] = PyStr(<<>>) /\ prev_obj[PortName] = PyInt(0)
    /\ prev_obj[EnabledName] = PyBool(FALSE)
    /\ NamespaceGet(args, HostName) = PyStr(<<"b">>)
    /\ config_obj[HostName] = PyStr(<<"b">>)
    /\ config_obj[PortName] = PyInt(0)
    /\ changed_rows = <<[option |-> HostName, value |-> PyStr(<<"b">>)]>>

\* C6: the enable/disable toggle is applied after the field assignments,
\* and whenever enable or disable is requested an 'enabled' entry is added
\* to the ChangeSet, even when enabled already holds that value and no
\* field was supplied, so such a pass returns the object, never a report.
C6_ToggleLastAlwaysRecorded ==
    (FilebeatPassed /\ (NamespaceGet(args, EnableName).b
                          \/ NamespaceGet(args, DisableName).b)) =>
        LET want == NamespaceGet(args, EnableName).b
            n    == Len(changed_rows)
        IN  /\ n >= 1
            /\ changed_rows[n] = [option |-> EnabledName, value |-> PyBool(want)]
            /\ \A r \in 1..(n - 1) : changed_rows[r].option # EnabledName
            /\ config_obj[EnabledName] = PyBool(want)
            /\ result.kind = "config_obj"

\* C6 witness: --enable alone on a target that is already enabled
C6_Witness ==
    /\ FilebeatPassed
    /\ prev_obj[EnabledName] = PyBool(TRUE)
    /\ NamespaceGet(args, EnableName).b /\ ~NamespaceGet(args, DisableName).b
    /\ config_obj = prev_obj
    /\ changed_rows = <<[option |-> EnabledName, value |-> PyBool(TRUE)]>>
    /\ result.kind = "config_obj"

\* C7: the report (with a row for the current enabled state) is returned
\* exactly when the ChangeSet of the pass is empty; the mutated config
\* object is returned in every other pass.
C7_ReportIffNoChange ==
    FilebeatPassed =>
        /\ (result.kind = "report") <=> (changed_rows = <<>>)
        /\ (changed_rows # <<>>) => result.kind = "config_obj"
        /\ (result.kind = "report") =>
              /\ Len(result.rows) >= 1
              /\ result.rows[Len(result.rows)] =
                    [option |-> EnabledName, value |-> config_obj[EnabledName]]

\* C7 witness: a reporting pass on an enabled target
C7_Witness ==
    /\ FilebeatPassed
    /\ result.kind = "report"
    /\ changed_rows = <<>>
    /\ config_obj[EnabledName] = PyBool(TRUE)
    /\ Len(result.rows) = 4

---------------------------------------------------------------------------
(* Properties of get_class_instance_methods *)

\* the interface has been built from the target type
InterfaceBuilt == iface = "CommandlineInterface" /\ pc = "Built"

\* class i of the target's __mro__ defines an extractable operation `name`
DefinesOperation(i, name) ==
    \E k \in 1..Len(cls[i].members) :
        /\ cls[i].members[k].name = name
        /\ cls[i].members[k].callable
        /\ cls[i].members[k].has_annotations

\* the descriptor extracted from class i's own definition of `name`
DescriptorOf(i, name) ==
    LET k == CHOOSE k \in 1..Len(cls[i].members) : cls[i].members[k].name = name
    IN  get_argparse_parameters(get_function_definition(cls[i].members[k]), defaults)

\* C10: for an operation name defined in a class and in one of its base
\* classes, the descriptor recorded under that name is the one of the
\* most-derived class: the first definition met along the __mro__ is kept.
C10_MostDerivedWins ==
    InterfaceBuilt =>
        \A r \in 1..Len(interface_methods) :
            LET name  == interface_methods[r].name
                first == CHOOSE i \in 1..Len(cls) :
                             /\ DefinesOperation(i, name)
                             /\ \A j \in 1..(i - 1) : ~DefinesOperation(j, name)
            IN  interface_methods[r].params = DescriptorOf(first, name)

---------------------------------------------------------------------------
(* Properties of the command-line interfaces: construction and mapping *)

CliInterfaces == {"SingleResponsibilityInterface", "MultipleResponsibilityInterface"}

\* __init__ of the interface under test has run (and returned or raised)
ConstructionAttempted == iface \in CliInterfaces /\ pc # "Idle"

\* the def statement of the target type's constructor
ConstructorSignature == ResolveInit(cls).signature

\* the constructor parameters declared without a type
UntypedParams ==
    {i \in 1..Len(ConstructorSignature) : ConstructorSignature[i].annotation.k = "empty"}

\* the descriptors recorded for a name in a parameter group
DescriptorsFor(group, name) == {j \in 1..Len(group) : group[j].name = name}

\* --<name>, underscores written as hyphens
FlagOf(name) == <<"-", "-">> \o Replace(name, "_", "-")

\* C11 (as stated): building an interface for a target type whose constructor
\* has an untyped parameter fails at construction with MissingTypeAnnotation;
\* no grammar is produced and no flag is derived for the untyped parameter.
C11_UntypedConstructorFails ==
    (ConstructionAttempted /\ UntypedParams # {}) =>
        /\ pc = "Failed"
        /\ raised = "MissingTypeAnnotation"
        /\ parser = NoParser
        /\ \A i \in UntypedParams :
              DescriptorsFor(base_params, ConstructorSignature[i].name) = {}

\* the interface object exists: __init__ returned
Constructed == iface \in CliInterfaces /\ pc \notin {"Idle", "Failed"}

\* every descriptor the interface holds
AllDescriptors ==
    {base_params[j] : j \in 1..Len(base_params)}
    \cup UNION {{interface_methods[i].params[j] : j \in 1..Len(interface_methods[i].params)} :
                i \in 1..Len(interface_methods)}

\* C18: for every parameter for which the caller supplies an external default,
\* whatever its value (False, 0 and '' included), the derived FlagSpec carries
\* that value as its default and has required = false.
C18_ExternalDefaultCarried ==
    Constructed =>
        \A d \in AllDescriptors :
            d.name \in DOMAIN defaults =>
                d.kwargs.default = defaults[d.name] /\ d.kwargs.required = FALSE

\* the functions defined in the body of the target type, and the group of
\* descriptors the interface holds for one of them
DefinedFunctions == {cls[1].members[k] : k \in 1..Len(cls[1].members)}
GroupOf(f) ==
    IF f.name = InitName THEN base_params
    ELSE IF HasKey(interface_methods, f.name) THEN ItemOf(interface_methods, f.name).params
    ELSE <<>>

\* the descriptors derived for parameter p of function f
DerivedFor(f, p) == {GroupOf(f)[j] : j \in DescriptorsFor(GroupOf(f), p.name)}

\* the parameters of a def statement
ParamsOf(f) == {f.signature[i] : i \in 1..Len(f.signature)}

\* `= <value>` in the signature, other than `= None`
NonEmptyDefault(p) == p.default \notin {Empty, PyNone}

\* C19: a parameter whose declared type is Optional[T], or whose signature
\* carries a non-empty default, yields a FlagSpec with required = false,
\* for constructor parameters and operation parameters alike.
C19_OptionalOrDefaultedNotRequired ==
    Constructed =>
        \A f \in DefinedFunctions : \A p \in ParamsOf(f) :
            (p.annotation.k = "Optional" \/ NonEmptyDefault(p)) =>
                \A d \in DerivedFor(f, p) : d.kwargs.required = FALSE

\* C20: for every parameter declared int, float or str, without default, the
\* derived FlagSpec is required, single-valued, and its value type is the
\* declared type, whatever the parameter name and whether the parameter
\* belongs to the constructor or to an operation.
C20_ScalarTypeFromDeclaredType ==
    Constructed =>
        \A f \in DefinedFunctions : \A p \in ParamsOf(f) :
            (/\ p.annotation.k \in {"int", "float", "str"}
             /\ p.default = Empty
             /\ p.name \notin DOMAIN defaults) =>
                /\ DerivedFor(f, p) # {}
                /\ \A d \in DerivedFor(f, p) :
                      /\ d.kwargs.required = TRUE
                      /\ d.kwargs.nargs = Absent
                      /\ d.kwargs.type = p.annotation.k

---------------------------------------------------------------------------
(* Properties of the command-line interfaces: grammar, parse and execute *)

MultipleAssembled == iface = "MultipleResponsibilityInterface" /\ pc = "Assembled"

\* the operation a name stands for on the target type takes no parameter
TakesNoParameter(name) ==
    /\ ResolveAttr(cls, name) # NoAttr
    /\ ResolveAttr(cls, name).signature = <<>>

\* the whitelisted zero-parameter operations in whitelist order, as tokens
WhitelistTokens ==
    LET kept == SelectSeq(supported_method_names, TakesNoParameter)
    IN  [i \in 1..Len(kept) |-> Replace(kept[i], "_", "-")]

\* the allowed values of the positional action argument of a grammar
ActionChoices(p) ==
    IF Positionals(p) = <<>> THEN <<>> ELSE Positionals(p)[1].choices

\* C12: in the grammar assembled for a MultipleResponsibilityInterface the
\* allowed action values are exactly the whitelisted zero-parameter
\* operations, in the order of the whitelist.
C12_ChoicesInWhitelistOrder ==
    MultipleAssembled => ActionChoices(parser) = WhitelistTokens

\* the token supplied as the action: on the command line, or in the
\* value-bag handed to execute
ActionSupplied ==
    IF pc = "Rejected" THEN argv.positionals # <<>>
    ELSE ActionKey \in DOMAIN args
SuppliedToken ==
    IF pc = "Rejected" THEN argv.positionals[1] ELSE args[ActionKey].s

\* the constructor of the target type ran
ConstructorInvoked ==
    \E i \in 1..Len(calls) : calls[i].callee = InitName /\ calls[i].ok

\* C13: for a MultipleResponsibilityInterface, whenever the supplied action
\* token is not a whitelisted operation - parsed and executed, or handed to
\* execute in a value-bag - a usage error is raised and the constructor of the
\* target type is never invoked.
C13_UnknownActionBeforeInstantiation ==
    (/\ iface = "MultipleResponsibilityInterface"
     /\ pc \in {"Rejected", "Parsed", "Executed", "Raised"}
     /\ ActionSupplied
     /\ ~InList(Replace(SuppliedToken, "-", "_"), supported_method_names)) =>
        raised = "SystemExit" /\ ~ConstructorInvoked

\* the FlagSpecs an assembly adds, in the order it adds them
WhitelistedGroups ==
    SelectSeq(interface_methods, LAMBDA it : InList(it.name, supported_method_names))
RECURSIVE Flatten(_, _)
Flatten(groups, i) ==
    IF i > Len(groups) THEN <<>> ELSE groups[i].params \o Flatten(groups, i + 1)
FlagSpecsAdded ==
    IF iface = "SingleResponsibilityInterface" THEN base_params \o interface_params
    ELSE base_params \o Flatten(WhitelistedGroups, 1)

\* the FlagSpecs that repeat no earlier flag name
FirstOfFlag ==
    {i \in 1..Len(FlagSpecsAdded) :
        \A j \in 1..(i - 1) : FlagSpecsAdded[j].flags # FlagSpecsAdded[i].flags}

\* C14: assembling a grammar in which a later parameter produces the same flag
\* as an earlier one succeeds without error: the earlier FlagSpec is kept and
\* the later duplicate is dropped.
C14_DuplicateFlagDropped ==
    (/\ iface \in CliInterfaces
     /\ pc \in {"Assembled", "Unassembled"}
     /\ FirstOfFlag # 1..Len(FlagSpecsAdded)) =>
        /\ pc = "Assembled" /\ raised = NoError
        /\ Len(Optionals(parser)) = Cardinality(FirstOfFlag)
        /\ \A i \in FirstOfFlag :
              \E a \in 1..Len(Optionals(parser)) :
                 /\ Optionals(parser)[a].option_strings = FlagSpecsAdded[i].flags
                 /\ Optionals(parser)[a].kwargs = FlagSpecsAdded[i].kwargs

\* execute has run on a value-bag
ExecuteRan == iface \in CliInterfaces /\ pc \in {"Executed", "Raised"}

ReservedKeys == {ActionKey, SubInterfaceKey}

\* C15: in execute of both variants the constructor receives exactly the
\* parsed values whose names match a base FlagSpec, and the operation exactly
\* the remaining values minus the reserved keys action and sub_interface.
C15_KwargsPartition ==
    ExecuteRan =>
        \A i \in 1..Len(calls) :
            IF calls[i].callee = InitName
            THEN calls[i].kwargs = Restrict(args, DOMAIN args \cap BaseNames(base_params))
            ELSE calls[i].kwargs =
                   Restrict(args, (DOMAIN args \ BaseNames(base_params)) \ ReservedKeys)

\* the value the operation called by the last execute returned
Returned == ResolveAttr(cls, calls[Len(calls)].callee).returns

\* C16: after a successful parse and dispatch the value the operation returned
\* is surfaced to the caller of execute, printed or returned, for both
\* variants and either print_to_stdout setting.
C16_ReturnValueSurfaced ==
    (iface \in CliInterfaces /\ pc = "Executed" /\ argv.given) =>
        InList(Str(Returned), stdout) \/ result = Returned

\* C17: every grammar assembled for a MultipleResponsibilityInterface holds
\* exactly one positional action argument with a closed set of choices.
C17_OneActionArgument ==
    MultipleAssembled =>
        /\ Len(Positionals(parser)) = 1
        /\ Positionals(parser)[1].dest = ActionKey
        /\ Positionals(parser)[1].choices # <<>>

\* a grammar was assembled, stand-alone or attached under a sub-command
GrammarAssembled == iface \in CliInterfaces /\ pc = "Assembled"

\* C21: in every assembled grammar (either variant, stand-alone or attached
\* under a sub-command) no flag is derived from a constructor or operation
\* parameter whose name is one of the reserved names action, sub_interface.
C21_NoFlagFromReservedName ==
    GrammarAssembled =>
        \A a \in 1..Len(Optionals(parser)) :
            /\ Optionals(parser)[a].dest \notin ReservedKeys
            /\ \A k \in ReservedKeys :
                  ~InList(FlagOf(k), Optionals(parser)[a].option_strings)

\* the option strings of a grammar's flags, in the order they were added
FlagOrder(arguments) ==
    LET opts == SelectSeq(arguments, LAMBDA a : ~a.positional)
    IN  [i \in 1..Len(opts) |-> opts[i].option_strings]

\* the descriptors a fresh run of extraction and mapping yields for the
\* target type, whitelist or entry method, and defaults of the interface
FreshDescriptors ==
    IF iface = "MultipleResponsibilityInterface"
    THEN MultipleResponsibilityInterface_init(cls, defaults)
    ELSE SingleResponsibilityInterface_init(cls, entry_method_name, defaults)

\* the arguments (FlagSpecs and action choices) a fresh run of assembly
\* adds from those descriptors, up to the add_argument that raises if one does
FreshArguments ==
    IF iface = "MultipleResponsibilityInterface"
    THEN AssembleMultiple(ArgumentParser, FreshDescriptors.base_params,
                          FreshDescriptors.interface_methods,
                          supported_method_names).arguments
    ELSE AssembleSingle(ArgumentParser, FreshDescriptors.base_params,
                        FreshDescriptors.interface_params).arguments

\* C22: grammar derivation is deterministic and leaves the interface
\* unchanged.  Whatever get_parser, append_interface_to_parser, parse and
\* execute passes have run on an interface whose FlagSpecs no caller
\* changed (add_flag, add_description), its descriptors are those a fresh
\* run of extraction and mapping yields for the same target type, whitelist
\* and defaults, and the grammar it assembled last holds the same FlagSpecs
\* (flags, required, value type, multiplicity, default, help) and action
\* choices as a fresh assembly.  And a get_parser call that follows an
\* execute pass returns, and returns the very grammar get_parser had
\* returned before that pass.
C22_GrammarDerivationDeterministic ==
    /\ (Constructed /\ CallerEdits = 0) =>
          /\ base_params = FreshDescriptors.base_params
          /\ interface_methods = FreshDescriptors.interface_methods
          /\ interface_params = FreshDescriptors.interface_params
          /\ parser # NoParser => parser.arguments = FreshArguments
    /\ prev_parser # NoParser =>
          /\ pc = "Assembled"
          /\ FlagOrder(parser.arguments) = FlagOrder(prev_parser.arguments)
          /\ ActionChoices(parser) = ActionChoices(prev_parser)
          /\ parser = prev_parser

\* C22 witness: get_parser called again after an execute pass that ran on
\* a command line parsed with its grammar; both calls returned the same
\* grammar, one constructor flag and two action choices
C22_Witness ==
    /\ iface = "MultipleResponsibilityInterface" /\ pc = "Assembled"
    /\ prev_parser # NoParser /\ parser = prev_parser
    /\ Len(Optionals(parser)) >= 1 /\ Len(ActionChoices(parser)) = 2
    /\ CallerEdits = 0
    /\ parser.arguments = FreshArguments

\* the grammar get_parser builds from the descriptors the interface holds
StandAlone ==
    IF iface = "MultipleResponsibilityInterface"
    THEN AssembleMultiple(ArgumentParser, base_params, interface_methods,
                          supported_method_names)
    ELSE AssembleSingle(ArgumentParser, base_params, interface_params)

\* a parent parser holds the interface under the command name
Attached == iface \in CliInterfaces /\ sub_parsers # NoParser

\* the last call was an append_interface_to_parser on that parent
AttachRan == Attached /\ pc \in {"Assembled", "Unassembled"} /\ parser = sub_parsers

\* the last call was a get_parser that returned, on an attached interface
BuiltBeside == Attached /\ pc = "Assembled" /\ parser.defaults = <<>>

\* C23: under the command name append_interface_to_parser attaches exactly
\* the grammar get_parser builds for the same interface from its stored
\* descriptors - the same flags in the same order, with the same kwargs, and
\* for the multiple-responsibility variant the same action choices - and
\* sets sub_interface to the command name.  Where get_parser raises, the
\* attach raises too and the parent keeps the arguments get_parser had
\* added when it raised; an attach that returns is one get_parser returns
\* for; and a get_parser call made after the attach returns the arguments
\* the parent holds.
C23_AttachedEqualsStandAlone ==
    /\ Attached =>
          /\ FlagOrder(sub_parsers.arguments) = FlagOrder(StandAlone.arguments)
          /\ sub_parsers.arguments = StandAlone.arguments
          /\ ActionChoices(sub_parsers) = ActionChoices(StandAlone)
          /\ sub_parsers.defaults = <<[name |-> SubInterfaceKey, value |-> PyStr(CommandName)]>>
    /\ AttachRan =>
          /\ pc = "Assembled" => (StandAlone.raised = NoError /\ raised = NoError)
          /\ StandAlone.raised # NoError =>
                (pc = "Unassembled" /\ raised \in {StandAlone.raised, "ArgumentError"})
    /\ BuiltBeside =>
          /\ parser.arguments = sub_parsers.arguments
          /\ ActionChoices(parser) = ActionChoices(sub_parsers)

\* C23 witness: a MultipleResponsibilityInterface attached under 'cmd', and
\* get_parser called after it: the caller's grammar and the sub-command the
\* parent holds have the same constructor flag and the same two action
\* choices
C23_Witness ==
    /\ BuiltBeside /\ iface = "MultipleResponsibilityInterface"
    /\ Len(FlagOrder(sub_parsers.arguments)) = 2
    /\ Len(ActionChoices(sub_parsers)) = 2
    /\ FlagOrder(parser.arguments) = FlagOrder(sub_parsers.arguments)
    /\ ActionChoices(parser) = ActionChoices(sub_parsers)
    /\ DefaultsDict(sub_parsers)[SubInterfaceKey] = PyStr(CommandName)

---------------------------------------------------------------------------
(* Properties of the mapping from declared types to FlagSpecs *)

\* the command line parsed last gave the flag of parameter p
FlagTyped(p) == argv.given /\ FlagOf(p.name) \in DOMAIN argv.options

\* C24 (as stated): for every parameter whose declared type is bool, of the constructor
\* or of an operation, the derived FlagSpec is a zero-argument toggle: its
\* action is store_true, it carries no value type and no multiplicity, and a
\* parsed command line that gives the flag yields True for the parameter.
C24_BooleanIsToggle ==
    Constructed =>
        \A f \in DefinedFunctions : \A p \in ParamsOf(f) :
            p.annotation = Scalar("bool") =>
                /\ DerivedFor(f, p) # {}
                /\ \A d \in DerivedFor(f, p) :
                      /\ d.kwargs.action = "store_true"
                      /\ d.kwargs.type = Absent
                      /\ d.kwargs.nargs = Absent
                /\ (pc = "Parsed" /\ FlagTyped(p)) => args[p.name] = PyBool(TRUE)

\* C25 (as stated): for every parameter whose declared type is a list type,
\* the derived FlagSpec accepts one or more values (nargs '+'), each coerced
\* to the element type of the list: the descriptor's type is the element
\* type, and a parsed command line that gives the flag yields the list of the
\* tokens that follow the flag, converted to that type.
C25_ListAcceptsManyOfElementType ==
    Constructed =>
        \A f \in DefinedFunctions : \A p \in ParamsOf(f) :
            p.annotation.k = "List" =>
                /\ DerivedFor(f, p) # {}
                /\ \A d \in DerivedFor(f, p) :
                      /\ d.kwargs.nargs = "+"
                      /\ d.kwargs.action = Absent
                      /\ d.kwargs.type = p.annotation.of
                /\ (pc = "Parsed" /\ FlagTyped(p)) =>
                      args[p.name] = ListValue(p.annotation.of,
                                               Typed(parser, argv).options[FlagOf(p.name)])

---------------------------------------------------------------------------
(* Dispatch of MultipleResponsibilityInterface *)

\* the parameter names of the def statement of f
ParameterNames(f) == {f.signature[i].name : i \in 1..Len(f.signature)}

\* the calls execute made on operations of the target (not the constructor)
OperationCalls == {i \in 1..Len(calls) : calls[i].callee # InitName}

\* C26 (as stated): in MultipleResponsibilityInterface.execute the operation
\* selected by the action token is invoked only with arguments that are
\* parameters of that operation; values parsed for flags of other whitelisted
\* operations are never passed to it, so a zero-parameter action is always
\* called with no arguments.
C26_OperationGetsOwnArguments ==
    (iface = "MultipleResponsibilityInterface" /\ pc \in {"Executed", "Raised"}) =>
        \A i \in OperationCalls :
            DOMAIN calls[i].kwargs \subseteq ParameterNames(ResolveAttr(cls, calls[i].callee))

\* the action token of operation `name` is one the grammar accepts, and
\* execute turns it back into the name of an attribute of the target
ActionTokenFor(name) ==
    LET token == Replace(name, "_", "-")
    IN  /\ \E a \in 1..Len(parser.arguments) :
              /\ parser.arguments[a].positional
              /\ parser.arguments[a].dest = ActionKey
              /\ InList(token, parser.arguments[a].choices)
        /\ ResolveAttr(cls, Replace(token, "-", "_")) = ResolveAttr(cls, name)

\* C27 (as stated): every operation name in the whitelist of a
\* MultipleResponsibilityInterface that is defined on the target type can be
\* selected through the assembled grammar, whether it takes no parameter or
\* one or more: the grammar has an action token for it that parse accepts and
\* that execute resolves to that operation.
C27_EveryWhitelistedOperationSelectable ==
    (iface = "MultipleResponsibilityInterface" /\ pc = "Assembled") =>
        \A i \in 1..Len(supported_method_names) :
            ResolveAttr(cls, supported_method_names[i]) # NoAttr =>
                ActionTokenFor(supported_method_names[i])

---------------------------------------------------------------------------
(* Boolean parameters without a default *)

\* a parameter declared bool with no default in the signature and none given
\* by the caller
BareBoolean(p) ==
    p.annotation = Scalar("bool") /\ p.default = Empty /\ p.name \notin DOMAIN defaults

\* C28 (as stated): for every boolean parameter that has no default and is
\* not optional, the derived toggle has required = false, so a command line
\* that omits the flag is not rejected, and parsing it yields False for the
\* parameter.
C28_BareToggleNotRequired ==
    Constructed =>
        \A f \in DefinedFunctions : \A p \in ParamsOf(f) :
            BareBoolean(p) =>
                /\ \A d \in DerivedFor(f, p) : d.kwargs.required = FALSE
                /\ (argv.given /\ ~FlagTyped(p) /\ argv.positionals = <<>>) =>
                      pc # "Rejected"
                /\ (pc = "Parsed" /\ ~FlagTyped(p)) => args[p.name] = PyBool(FALSE)

---------------------------------------------------------------------------
(* The ChangeSet of a pass *)

\* C29 (as stated): after a mutating AnalyzersInterface.execute pass every
\* changed_rows entry belongs to an analyzer whose enabled flag or value
\* differs from its state before the pass; a selected analyzer on which the
\* pass changed nothing is not recorded.
C29_OnlyChangedAnalyzersRecorded ==
    (iface = "AnalyzersInterface" /\ pc = "Mutating") =>
        \A r \in 1..Len(changed_rows) :
            \A i \in 1..Len(config_obj.analyzers) :
                config_obj.analyzers[i].id = changed_rows[r].id =>
                    \/ config_obj.analyzers[i].enabled # prev_obj.analyzers[i].enabled
                    \/ config_obj.analyzers[i].value # prev_obj.analyzers[i].value

\* the rows the last pass produces on an interface that held none before it
LastPassRows ==
    IF iface = "AnalyzersInterface"
    THEN AnalyzersInterface_execute(prev_obj, prev_args, <<>>).changed_rows
    ELSE FilebeatTargetsInterface_execute(prev_obj, prev_args, defaults, <<>>).changed_rows

\* C30: after any sequence of execute passes on one AnalyzersInterface or
\* FilebeatTargetsInterface, changed_rows holds only the entries of the most
\* recent pass: it equals what that pass produces on an interface with no
\* earlier rows, it names no analyzer or option twice, an analyzer entry is
\* one the pass selected, and after a reporting pass it is empty, whatever
\* earlier passes did.
C30_OnlyLastPassRows ==
    (iface \in {"AnalyzersInterface", "FilebeatTargetsInterface"} /\ pc # "Idle") =>
        /\ changed_rows = LastPassRows
        /\ (pc = "Reporting") => changed_rows = <<>>
        /\ iface = "AnalyzersInterface" =>
              /\ Len(changed_rows) <= Len(config_obj.analyzers)
              /\ \A r \in 1..Len(changed_rows) :
                    InList(changed_rows[r].id, args.analyzer_ids)
              /\ \A r, q \in 1..Len(changed_rows) :
                    r # q => changed_rows[r].id # changed_rows[q].id
        /\ iface = "FilebeatTargetsInterface" =>
              \A r, q \in 1..Len(changed_rows) :
                  r # q => changed_rows[r].option # changed_rows[q].option

\* C30 witness: a Filebeat pass that set only the port, on an object whose
\* host an earlier pass had set; changed_rows holds the port entry alone
C30_Witness ==
    /\ iface = "FilebeatTargetsInterface" /\ pc = "Mutating"
    /\ config_obj[HostName] = PyStr(<<"b">>)
    /\ NamespaceGet(args, HostName) = PyNone
    /\ NamespaceGet(args, PortName) = PyInt(2)
    /\ changed_rows = <<[option |-> PortName, value |-> PyInt(2)]>>

====
